---------------------------- MODULE Spec2Model ----------------------------
(***************************************************************************)
(* Model of the medical-device research assistant:                         *)
(*   - Agent.process (src/agents.py): the per-turn orchestration of the    *)
(*     document-search, regulatory and web-search collaborators and the    *)
(*     completion call;                                                    *)
(*   - FDAMedicalDeviceTool (src/FDA_tool.py): run, _search_database,      *)
(*     _sanitize_query and the record formatters.                          *)
(* Python strings are TLA+ strings; the string functions the code uses     *)
(* (strip, split, lower, the "in" substring test, slicing) are computed    *)
(* character by character.                                                 *)
(***************************************************************************)
EXTENDS Integers, Sequences, FiniteSets, TLC

VARIABLES
    tools,          \* Agent.tools: the names of the configured collaborators
    user_input,     \* process's argument (a tagged value: a str, or None)
    tool_results,   \* process's local list of evidence blocks
    pc,             \* the position of process in its body
    ret,            \* how the last call of process ended
    prompt,         \* the prompt _generate_response built ("" before)
    calls,          \* the collaborator invocations of this turn, in order,
                    \* each with its arguments and how it ended
    raised,         \* the collaborators that raised in this turn
    turn,           \* the number of calls of process started so far
    f_pc,           \* the position of FDAMedicalDeviceTool.run in its body
    f_query,        \* run's argument query
    f_database,     \* run's argument database
    f_limit,        \* run's argument limit
    f_i,            \* the index of the loop over db_to_search
    f_results,      \* run's local dict results, as its entries in order
    f_requests,     \* the backend requests run has sent, in order
    f_responses,    \* what the backend answered to each of them
    f_ret,          \* how the last call of run ended
    p_fn,           \* the pure function under check, "" when none is
    p_args,         \* its arguments
    p_out,          \* its result, once it was applied
    messages        \* st.session_state.messages: the conversation of the chat

agentVars == <<tools, user_input, tool_results, pc, ret, prompt, calls, raised, turn>>

fdaVars == <<f_pc, f_query, f_database, f_limit, f_i, f_results, f_requests,
             f_responses, f_ret>>

pureVars == <<p_fn, p_args, p_out>>

chatVars == <<messages>>

vars == <<agentVars, fdaVars, pureVars, chatVars>>

-----------------------------------------------------------------------------
(* Bounds of the model *)

MaxTurns == 2

\* The longest record list of a response given to _format_multi_results
MaxRecords == 3

-----------------------------------------------------------------------------
(* Python values and string functions *)

\* Python (JSON) values, tagged by type: t is the type, s the text of a str
\* (the str() of an exception), q the elements of a list or the (key, value)
\* pairs of a dict in their order.
Str(s) == [t |-> "str", s |-> s, q |-> <<>>]
None == [t |-> "null", s |-> "", q |-> <<>>]
List(q) == [t |-> "list", s |-> "", q |-> q]
Obj(kv) == [t |-> "obj", s |-> "", q |-> kv]
\* An exception raised while a value was computed
Exc(m) == [t |-> "exc", s |-> m, q |-> <<>>]

IsExc(v) == v.t = "exc"

\* type(v).__name__
TypeName(v) ==
    IF v.t = "str" THEN "str"
    ELSE IF v.t = "null" THEN "NoneType"
    ELSE IF v.t = "list" THEN "list"
    ELSE "dict"

\* bool(v)
Truthy(v) ==
    IF v.t = "str" THEN v.s # ""
    ELSE IF v.t = "null" THEN FALSE
    ELSE v.q # <<>>

\* k in d, d[k] and d.get(k, default) for a dict d
HasKey(d, k) == \E i \in 1..Len(d.q) : d.q[i][1] = k
Lookup(d, k) == d.q[CHOOSE i \in 1..Len(d.q) : d.q[i][1] = k][2]
Get(d, k, default) == IF HasKey(d, k) THEN Lookup(d, k) ELSE default

\* v.get(k, default) for any value v: AttributeError unless v is a dict
GetAttr(v, k, default) ==
    IF IsExc(v) THEN v
    ELSE IF v.t = "obj" THEN Get(v, k, default)
    ELSE Exc("'" \o TypeName(v) \o "' object has no attribute 'get'")

\* len(v): defined for str, list and dict
HasLen(v) == v.t \in {"str", "list", "obj"}
LenOf(v) == IF v.t = "str" THEN Len(v.s) ELSE Len(v.q)
LenError(v) == Exc("object of type '" \o TypeName(v) \o "' has no len()")

\* v[0]
Index0(v) ==
    IF IsExc(v) THEN v
    ELSE IF v.t = "list"
    THEN IF v.q # <<>> THEN v.q[1] ELSE Exc("list index out of range")
    ELSE IF v.t = "str"
    THEN IF v.s # "" THEN Str(SubSeq(v.s, 1, 1)) ELSE Exc("string index out of range")
    ELSE IF v.t = "obj" THEN Exc("0")
    ELSE Exc("'NoneType' object is not subscriptable")

\* v[:n]
SliceTo(v, n) ==
    IF IsExc(v) THEN v
    ELSE IF v.t = "list" THEN List(SubSeq(v.q, 1, IF Len(v.q) < n THEN Len(v.q) ELSE n))
    ELSE IF v.t = "str" THEN Str(SubSeq(v.s, 1, IF Len(v.s) < n THEN Len(v.s) ELSE n))
    ELSE IF v.t = "obj" THEN Exc("unhashable type: 'slice'")
    ELSE Exc("'NoneType' object is not subscriptable")

\* The outcome of a call: a returned value or a raised exception (its str()).
Returned(v) == [ok |-> TRUE, v |-> v, msg |-> ""]
Raised(m) == [ok |-> FALSE, v |-> "", msg |-> m]

Max(a, b) == IF a >= b THEN a ELSE b
Min(a, b) == IF a <= b THEN a ELSE b

Char(s, i) == SubSeq(s, i, i)

IsSpace(c) == c \in {" ", "\t", "\n", "\r", "\f"}

UpperAlpha == "ABCDEFGHIJKLMNOPQRSTUVWXYZ"
LowerAlpha == "abcdefghijklmnopqrstuvwxyz"

LowerChar(c) ==
    IF \E i \in 1..26 : Char(UpperAlpha, i) = c
    THEN Char(LowerAlpha, CHOOSE i \in 1..26 : Char(UpperAlpha, i) = c)
    ELSE c

\* str.lower()
RECURSIVE Lower(_)
Lower(s) ==
    IF Len(s) = 0 THEN ""
    ELSE IF Len(s) = 1 THEN LowerChar(s)
    ELSE LET mid == Len(s) \div 2
         IN Lower(SubSeq(s, 1, mid)) \o Lower(SubSeq(s, mid + 1, Len(s)))

\* "k in s" for strings
Contains(s, k) ==
    \E i \in 1..(Len(s) - Len(k) + 1) : SubSeq(s, i, i + Len(k) - 1) = k

StartsWith(s, k) == Len(k) <= Len(s) /\ SubSeq(s, 1, Len(k)) = k

\* str.find(k) + 1: the first position of k in s, 0 when k does not occur
IndexOf(s, k) ==
    IF Contains(s, k)
    THEN CHOOSE i \in 1..(Len(s) - Len(k) + 1) :
            /\ SubSeq(s, i, i + Len(k) - 1) = k
            /\ \A j \in 1..(i - 1) : SubSeq(s, j, j + Len(k) - 1) # k
    ELSE 0

RECURSIVE LStrip(_)
LStrip(s) == IF s # "" /\ IsSpace(Char(s, 1)) THEN LStrip(Tail(s)) ELSE s

RECURSIVE RStrip(_)
RStrip(s) ==
    IF s # "" /\ IsSpace(Char(s, Len(s)))
    THEN RStrip(SubSeq(s, 1, Len(s) - 1))
    ELSE s

\* str.strip()
Strip(s) == RStrip(LStrip(s))

UpperChar(c) ==
    IF \E i \in 1..26 : Char(LowerAlpha, i) = c
    THEN Char(UpperAlpha, CHOOSE i \in 1..26 : Char(LowerAlpha, i) = c)
    ELSE c

\* str.upper()
RECURSIVE Upper(_)
Upper(s) ==
    IF Len(s) = 0 THEN ""
    ELSE IF Len(s) = 1 THEN UpperChar(s)
    ELSE LET mid == Len(s) \div 2
         IN Upper(SubSeq(s, 1, mid)) \o Upper(SubSeq(s, mid + 1, Len(s)))

\* sep.join(parts)
RECURSIVE Join(_, _)
Join(sep, parts) ==
    IF parts = <<>> THEN ""
    ELSE IF Len(parts) = 1 THEN parts[1]
    ELSE parts[1] \o sep \o Join(sep, Tail(parts))

\* repr(v) and str(v), for texts without quotes or backslashes
RECURSIVE Repr(_)
RECURSIVE ReprItems(_, _)
Repr(v) ==
    IF v.t = "str" THEN "'" \o v.s \o "'"
    ELSE IF v.t = "null" THEN "None"
    ELSE IF v.t = "list" THEN "[" \o ReprItems(v.q, FALSE) \o "]"
    ELSE "{" \o ReprItems(v.q, TRUE) \o "}"
ReprItems(q, pairs) ==
    IF q = <<>> THEN ""
    ELSE (IF pairs THEN "'" \o q[1][1] \o "': " \o Repr(q[1][2]) ELSE Repr(q[1]))
         \o (IF Len(q) > 1 THEN ", " ELSE "")
         \o ReprItems(Tail(q), pairs)

\* The value of {v} in an f-string
PyStr(v) == IF IsExc(v) THEN v ELSE IF v.t = "str" THEN v ELSE Str(Repr(v))

\* The concatenation of the parts of an f-string or of a chain of +=, the
\* parts evaluated in order: the first exception among them, if any
RECURSIVE Cat(_)
Cat(parts) ==
    IF parts = <<>> THEN Str("")
    ELSE IF IsExc(parts[1]) THEN parts[1]
    ELSE LET rest == Cat(Tail(parts))
         IN IF IsExc(rest) THEN rest ELSE Str(parts[1].s \o rest.s)

-----------------------------------------------------------------------------
(* Agent (src/agents.py) *)

ToolNames == {"file_search", "fda_medical_device", "web_search"}

\* Agent._find_tool_by_name: whether a tool of that name is configured
_find_tool_by_name(name) == name \in tools

\* Agent._needs_fda_search
fda_keywords ==
    <<"fda", "recall", "510k", "clearance", "approval", "pma",
      "medical device", "adverse event", "regulatory", "maude">>

\* _needs_fda_search reading the utterance alone
_needs_fda_search_UtteranceOnly(input, results) ==
    LET combined_text == Lower(input)
    IN \E i \in 1..Len(fda_keywords) : Contains(combined_text, fda_keywords[i])

_needs_fda_search(input, results) ==
    LET combined_text == Lower(input \o " " \o Join(" ", results))
    IN \E i \in 1..Len(fda_keywords) : Contains(combined_text, fda_keywords[i])

\* Agent._get_fda_search_params
device_keywords ==
    <<"everion", "biofourmis", "insulin pump", "pacemaker", "stent", "catheter">>

\* _get_fda_search_params testing the clearance keywords before "recall"
_get_fda_search_params_ClearanceFirst(input, results) ==
    LET low == Lower(input \o " " \o Join(" ", results))
        hits == {i \in 1..Len(device_keywords) : Contains(low, device_keywords[i])}
        search_query ==
            IF hits = {} THEN "medical device"
            ELSE device_keywords[CHOOSE i \in hits : \A j \in hits : i <= j]
        database ==
            IF Contains(low, "510k") \/ Contains(low, "clearance") THEN "510k"
            ELSE IF Contains(low, "recall") THEN "recall"
            ELSE IF Contains(low, "pma") \/ Contains(low, "approval") THEN "pma"
            ELSE IF Contains(low, "adverse") \/ Contains(low, "event") THEN "event"
            ELSE "all"
    IN <<search_query, database>>

\* _get_fda_search_params taking the device keyword that comes first in the
\* text instead of the one that comes first in the list
_get_fda_search_params_FirstInText(input, results) ==
    LET low == Lower(input \o " " \o Join(" ", results))
        hits == {i \in 1..Len(device_keywords) : Contains(low, device_keywords[i])}
        search_query ==
            IF hits = {} THEN "medical device"
            ELSE device_keywords[CHOOSE i \in hits : \A j \in hits :
                                    IndexOf(low, device_keywords[i])
                                        <= IndexOf(low, device_keywords[j])]
        database ==
            IF Contains(low, "recall") THEN "recall"
            ELSE IF Contains(low, "510k") \/ Contains(low, "clearance") THEN "510k"
            ELSE IF Contains(low, "pma") \/ Contains(low, "approval") THEN "pma"
            ELSE IF Contains(low, "adverse") \/ Contains(low, "event") THEN "event"
            ELSE "all"
    IN <<search_query, database>>

_get_fda_search_params(input, results) ==
    LET combined_text == input \o " " \o Join(" ", results)
        low == Lower(combined_text)
        hits == {i \in 1..Len(device_keywords) : Contains(low, device_keywords[i])}
        search_query ==
            IF hits = {} THEN "medical device"
            ELSE device_keywords[CHOOSE i \in hits : \A j \in hits : i <= j]
        database ==
            IF Contains(low, "recall") THEN "recall"
            ELSE IF Contains(low, "510k") \/ Contains(low, "clearance") THEN "510k"
            ELSE IF Contains(low, "pma") \/ Contains(low, "approval") THEN "pma"
            ELSE IF Contains(low, "adverse") \/ Contains(low, "event") THEN "event"
            ELSE "all"
    IN <<search_query, database>>

\* The recency test of step 3
recency_terms == <<"web search", "latest", "recent", "current">>

\* The recency test applied to the utterance and the gathered evidence
WantsWebSearch_Evidence(input) ==
    \E i \in 1..Len(recency_terms) :
        Contains(Lower(input \o " " \o Join(" ", tool_results)), recency_terms[i])

WantsWebSearch(input) ==
    \E i \in 1..Len(recency_terms) : Contains(Lower(input), recency_terms[i])


\* VectorStep testing the length of the output as it came, not trimmed
VectorStep_RawLength(results, out) ==
    IF out.ok
    THEN [exc |-> FALSE, msg |-> "",
          results |-> IF out.v # "" /\ Len(out.v) > 20
                      THEN Append(results, "## Internal Documents\n" \o out.v)
                      ELSE results]
    ELSE [exc |-> FALSE, msg |-> "",
          results |-> Append(results, "**Vector Store Error:** " \o out.msg)]

\* VectorStep without the handler of lines 46-47: the exception leaves the step
VectorStep_NoHandler(results, out) ==
    IF out.ok
    THEN [exc |-> FALSE, msg |-> "",
          results |-> IF out.v # "" /\ Len(Strip(out.v)) > 20
                      THEN Append(results, "## Internal Documents\n" \o out.v)
                      ELSE results]
    ELSE [exc |-> TRUE, msg |-> out.msg, results |-> results]

\* process, lines 41-47: the document-search step on the collaborator's outcome.
\* The result is the evidence list, and whether an exception leaves the step.
VectorStep(results, out) ==
    IF out.ok
    THEN [exc |-> FALSE, msg |-> "",
          results |-> IF out.v # "" /\ Len(Strip(out.v)) > 20
                      THEN Append(results, "## Internal Documents\n" \o out.v)
                      ELSE results]
    ELSE [exc |-> FALSE, msg |-> "",
          results |-> Append(results, "**Vector Store Error:** " \o out.msg)]

\* FdaStep putting its block at the head of the list
FdaStep_Prepend(results, out) ==
    IF out.ok
    THEN [exc |-> FALSE, msg |-> "",
          results |-> IF out.v # ""
                      THEN <<"## FDA Database Results\n" \o out.v>> \o results
                      ELSE results]
    ELSE [exc |-> FALSE, msg |-> "",
          results |-> <<"**FDA Search Error:** " \o out.msg>> \o results]

\* process, lines 55-60: the regulatory step on the collaborator's outcome
FdaStep(results, out) ==
    IF out.ok
    THEN [exc |-> FALSE, msg |-> "",
          results |-> IF out.v # ""
                      THEN Append(results, "## FDA Database Results\n" \o out.v)
                      ELSE results]
    ELSE [exc |-> FALSE, msg |-> "",
          results |-> Append(results, "**FDA Search Error:** " \o out.msg)]

\* process, lines 66-70: the web-search step on the collaborator's outcome
WebStep(results, out) ==
    IF out.ok
    THEN [exc |-> FALSE, msg |-> "",
          results |-> Append(results, "## Web Search Results\n" \o out.v)]
    ELSE [exc |-> FALSE, msg |-> "",
          results |-> Append(results, "**Web Search Error:** " \o out.msg)]

\* OuterExcept raising the exception again instead of returning a text
OuterExcept_Reraise(msg) == [kind |-> "raise", text |-> msg]

\* process, lines 75-76: the handler of the outer try
OuterExcept(msg) ==
    [kind |-> "return",
     text |-> "I encountered an error processing your request: " \o msg]

\* The prompt with the "Information Found" framing whatever the list holds
BuildPrompt_AlwaysFound(input, results) ==
    "User Question: " \o input \o "\n\nInformation Found:\n"
    \o Join("\n\n", results)
    \o "\n\nPlease provide a comprehensive, well-structured answer based on the information above. Use clear headings and highlight any important safety or regulatory information."

\* _generate_response, lines 124-135: the prompt
BuildPrompt(input, results) ==
    IF results # <<>>
    THEN "User Question: " \o input \o "\n\nInformation Found:\n"
         \o Join("\n\n", results)
         \o "\n\nPlease provide a comprehensive, well-structured answer based on the information above. Use clear headings and highlight any important safety or regulatory information."
    ELSE "User Question: " \o input
         \o "\n\nNo additional information was found from the search tools. Please provide the best answer you can and suggest what specific information the user might want to search for."

\* _generate_response, lines 137-180: what it returns, on the environment
\* (API key, client construction) and the completion collaborator's outcome
_generate_response(c) ==
    IF c.env = "nokey"
    THEN [kind |-> "return", text |-> "OpenAI API key not configured"]
    ELSE IF c.env = "clientfail"
    THEN [kind |-> "return", text |-> "Failed to create OpenAI client: " \o c.out.msg]
    ELSE IF c.out.ok
    THEN [kind |-> "return", text |-> c.out.v]
    ELSE [kind |-> "return", text |-> "Error generating response: " \o c.out.msg]

\* The str() of the TypeError of user_input + " " when user_input is None
NoneConcatError == "unsupported operand type(s) for +: 'NoneType' and 'str'"

-----------------------------------------------------------------------------
(* FDAMedicalDeviceTool (src/FDA_tool.py) *)

base_url == "https://api.fda.gov/device"

\* run, line 57
db_to_search == <<"recall", "event", "510k", "pma">>

\* str.split(): the words of s, the maximal runs of non-whitespace characters
RECURSIVE SplitFrom(_, _, _)
SplitFrom(s, i, word) ==
    IF i > Len(s)
    THEN IF word = "" THEN <<>> ELSE <<word>>
    ELSE IF IsSpace(Char(s, i))
    THEN (IF word = "" THEN <<>> ELSE <<word>>) \o SplitFrom(s, i + 1, "")
    ELSE SplitFrom(s, i + 1, word \o Char(s, i))

Split(s) == SplitFrom(s, 1, "")

\* _sanitize_query without the trimming of line 135
_sanitize_query_NoStrip(query, database) ==
    LET q == query
    IN IF q = "" THEN "device"
       ELSE IF Len(Split(q)) = 1 THEN q
       ELSE IF database = "510k" THEN "device_name:" \o q
       ELSE IF database = "recall" THEN "product_description:" \o q
       ELSE IF database = "event" THEN "device.brand_name:" \o q
       ELSE q

\* _sanitize_query
_sanitize_query(query, database) ==
    LET q == Strip(query)
    IN IF q = "" THEN "device"
       ELSE IF Len(Split(q)) = 1 THEN q
       ELSE IF database = "510k" THEN "device_name:" \o q
       ELSE IF database = "recall" THEN "product_description:" \o q
       ELSE IF database = "event" THEN "device.brand_name:" \o q
       ELSE IF database = "pma" THEN q
       ELSE q

\* What a call of _search_database gives its caller: the decoded body, or an
\* exception
Found(body) == [ok |-> TRUE, v |-> body, msg |-> ""]
Failed(m) == [ok |-> FALSE, v |-> None, msg |-> m]

\* What requests.get does: it raises (a transport fault), or returns a
\* response with a status code and a body
TransportFault(m) == [kind |-> "transport", status |-> 0, body |-> None, msg |-> m]
HttpResponse(status, body) == [kind |-> "http", status |-> status, body |-> body, msg |-> ""]

\* _search_database, lines 99-108: the request it sends
RequestOf(query, database, limit) ==
    [endpoint |-> base_url \o "/" \o database \o ".json",
     search |-> _sanitize_query(query, database),
     limit |-> limit]

\* _search_database, lines 114-131: its result on the backend's response
_search_database(resp) ==
    IF resp.kind = "transport" THEN Failed(resp.msg)
    ELSE IF resp.status = 200
    THEN LET results == GetAttr(resp.body, "results", List(<<>>))
         IN IF IsExc(results) THEN Failed(results.s)
            ELSE IF ~HasLen(results) THEN Failed(LenError(results).s)
            ELSE Found(resp.body)
    ELSE Failed("API error: " \o ToString(resp.status))

\* run, lines 65 and 84: the response holds records
HoldsRecords(body) ==
    Truthy(body) /\ HasKey(body, "results") /\ Truthy(Lookup(body, "results"))

\* _get_applicant_name
applicant_fields == <<"applicant", "owner_operator", "manufacturer">>

_get_applicant_name(item) ==
    LET hits == {i \in 1..Len(applicant_fields) :
                    /\ HasKey(item, applicant_fields[i])
                    /\ Truthy(Lookup(item, applicant_fields[i]))}
    IN IF hits = {} THEN Str("Unknown Manufacturer")
       ELSE Lookup(item, applicant_fields[CHOOSE i \in hits : \A j \in hits : i <= j])

\* _format_multi_results, lines 200-208: one 510(k) record
Multi510kItem(item) ==
    IF item.t # "obj" THEN GetAttr(item, "device_name", None)
    ELSE LET device_name == Get(item, "device_name", Str("Unknown Device"))
             decision_date == Get(item, "decision_date", Str("Unknown Date"))
             manufacturer == _get_applicant_name(item)
             k_number == Get(item, "k_number", Str("Unknown"))
         IN Cat(<<Str("- **"), PyStr(device_name), Str("** (K"), PyStr(k_number), Str(")\n"),
                  Str("  - Manufacturer: "), PyStr(manufacturer), Str("\n"),
                  Str("  - Clearance Date: "), PyStr(decision_date), Str("\n\n")>>)

\* _format_multi_results, lines 212-220: one PMA record
MultiPmaItem(item) ==
    IF item.t # "obj" THEN GetAttr(item, "openfda", None)
    ELSE LET openfda == Get(item, "openfda", Obj(<<>>))
             present == GetAttr(openfda, "device_name", None)
             device_name ==
                 IF IsExc(present) THEN present
                 ELSE IF Truthy(present)
                 THEN Index0(GetAttr(openfda, "device_name", List(<<Str("Unknown Device")>>)))
                 ELSE Str("Unknown Device")
             approval_date == Get(item, "approval_date", Str("Unknown Date"))
             applicant == Get(item, "applicant", Str("Unknown Manufacturer"))
             pma_number == Get(item, "pma_number", Str("Unknown"))
         IN Cat(<<Str("- **"), PyStr(device_name), Str("** ("), PyStr(pma_number), Str(")\n"),
                  Str("  - Manufacturer: "), PyStr(applicant), Str("\n"),
                  Str("  - Approval Date: "), PyStr(approval_date), Str("\n\n")>>)

\* _format_multi_results, lines 224-231: one recall record
MultiRecallItem(item) ==
    IF item.t # "obj" THEN GetAttr(item, "product_description", None)
    ELSE LET product == Get(item, "product_description", Str("Unknown Product"))
             reason == Get(item, "reason_for_recall", Str("Unknown Reason"))
             date == Get(item, "recall_initiation_date", Str("Unknown Date"))
             reason_line ==
                 IF ~HasLen(reason) THEN LenError(reason)
                 ELSE IF LenOf(reason) > 100
                 THEN Cat(<<Str("  - Recall Reason: "), PyStr(SliceTo(reason, 100)), Str("...\n")>>)
                 ELSE Cat(<<Str("  - Recall Reason: "), PyStr(reason), Str("\n")>>)
         IN Cat(<<Str("- **"), PyStr(product), Str("**\n"),
                  reason_line,
                  Str("  - Date Initiated: "), PyStr(date), Str("\n\n")>>)

\* _format_multi_results, lines 236-237: a field of the first entry of the
\* record's device list
FirstDeviceField(item, field, placeholder) ==
    LET device == Get(item, "device", None)
    IN IF Truthy(device) /\ LenOf(device) > 0
       THEN GetAttr(Index0(Get(item, "device", List(<<Obj(<<>>)>>))), field, Str(placeholder))
       ELSE Str(placeholder)

\* _format_multi_results, lines 235-244: one adverse event record
MultiEventItem(item) ==
    IF item.t # "obj" THEN GetAttr(item, "device", None)
    ELSE LET device == FirstDeviceField(item, "brand_name", "Unknown Device")
             manufacturer == FirstDeviceField(item, "manufacturer_d_name", "Unknown Manufacturer")
             event_type == Get(item, "event_type", Str("Unknown Event Type"))
             date == Get(item, "date_received", Str("Unknown Date"))
         IN Cat(<<Str("- **"), PyStr(device), Str("**\n"),
                  Str("  - Manufacturer: "), PyStr(manufacturer), Str("\n"),
                  Str("  - Event Type: "), PyStr(event_type), Str("\n"),
                  Str("  - Report Date: "), PyStr(date), Str("\n\n")>>)

MultiItem(db_type, item) ==
    IF db_type = "510k" THEN Multi510kItem(item)
    ELSE IF db_type = "pma" THEN MultiPmaItem(item)
    ELSE IF db_type = "recall" THEN MultiRecallItem(item)
    ELSE MultiEventItem(item)

\* The loop "for item in items" of _format_multi_results over items = v[:2]
MultiItems(db_type, items) ==
    IF IsExc(items) THEN items
    ELSE IF items.t = "list"
    THEN Cat([i \in 1..Len(items.q) |-> MultiItem(db_type, items.q[i])])
    ELSE Cat([i \in 1..Len(items.s) |-> MultiItem(db_type, Str(Char(items.s, i)))])

\* The section of one database without the cap of two records
MultiSection_NoCap(db_type, results) ==
    IF HasKey(results, "results") /\ Truthy(Lookup(results, "results"))
    THEN Cat(<<Str("## " \o Upper(db_type) \o " Database\n"),
               IF db_type \in {"510k", "pma", "recall", "event"}
               THEN MultiItems(db_type, Lookup(results, "results"))
               ELSE Str("")>>)
    ELSE Str("")

\* _format_multi_results, lines 195-244: the section of one database
MultiSection(db_type, results) ==
    IF HasKey(results, "results") /\ Truthy(Lookup(results, "results"))
    THEN Cat(<<Str("## " \o Upper(db_type) \o " Database\n"),
               IF db_type \in {"510k", "pma", "recall", "event"}
               THEN MultiItems(db_type, SliceTo(Lookup(results, "results"), 2))
               ELSE Str("")>>)
    ELSE Str("")

\* _format_multi_results: results_dict is the sequence of the dict's
\* (database, response) entries in insertion order; the result is the text,
\* or the exception that left the function
_format_multi_results(results_dict) ==
    IF results_dict = <<>>
    THEN Str("No results found in FDA databases for this query.")
    ELSE Cat(<<Str("# FDA Medical Device Database Results\n\n")>>
             \o [i \in 1..Len(results_dict) |->
                    MultiSection(results_dict[i][1], results_dict[i][2])]
             \o <<Str("\nSource: FDA Databases via api.fda.gov")>>)

\* "k in v" for a str k: whether it raises (v is None), and its value otherwise
InRaises(v) == v.t = "null"
InError(v) == Exc("argument of type 'NoneType' is not iterable")
InHolds(k, v) ==
    IF v.t = "obj" THEN HasKey(v, k)
    ELSE IF v.t = "str" THEN Contains(v.s, k)
    ELSE \E i \in 1..Len(v.q) : v.q[i] = Str(k)

\* v[k] for a str k
Subscript(v, k) ==
    IF IsExc(v) THEN v
    ELSE IF v.t = "obj" THEN IF HasKey(v, k) THEN Lookup(v, k) ELSE Exc("'" \o k \o "'")
    ELSE IF v.t = "str" THEN Exc("string indices must be integers")
    ELSE IF v.t = "list" THEN Exc("list indices must be integers or slices, not str")
    ELSE Exc("'NoneType' object is not subscriptable")

\* The elements of "for x in v": of a list its elements, of a str its
\* characters, of a dict its keys
Elements(v) ==
    IF v.t = "list" THEN v.q
    ELSE IF v.t = "str" THEN [i \in 1..Len(v.s) |-> Str(Char(v.s, i))]
    ELSE [i \in 1..Len(v.q) |-> Str(v.q[i][1])]

\* ", ".join(v)
JoinValue(v) ==
    IF IsExc(v) THEN v
    ELSE IF v.t = "null" THEN Exc("can only join an iterable")
    ELSE LET e == Elements(v)
             bad == {i \in 1..Len(e) : e[i].t # "str"}
         IN IF bad # {}
            THEN LET i == CHOOSE i \in bad : \A j \in bad : i <= j
                 IN Exc("sequence item " \o ToString(i - 1) \o ": expected str instance, "
                        \o TypeName(e[i]) \o " found")
            ELSE Str(Join(", ", [i \in 1..Len(e) |-> e[i].s]))

\* text[:300] + "..." when len(text) > 300, for a value that has a len()
Truncate300(v) ==
    IF LenOf(v) > 300
    THEN IF v.t = "str" THEN Str(SubSeq(v.s, 1, 300) \o "...")
         ELSE IF v.t = "list" THEN Exc("can only concatenate list (not \"str\") to list")
         ELSE Exc("unhashable type: 'slice'")
    ELSE v

\* _format_510k_results, lines 253-282: one record
Single510kItem(item) ==
    IF item.t # "obj" THEN GetAttr(item, "device_name", None)
    ELSE LET device_name == Get(item, "device_name", Str("Unknown Device"))
             decision_date == Get(item, "decision_date", Str("Unknown Date"))
             manufacturer == _get_applicant_name(item)
             k_number == Get(item, "k_number", Str("Unknown"))
             product_code == Get(item, "product_code", Str("Unknown"))
             device_class == Get(item, "device_class", Str("Unknown"))
             first == Index0(Lookup(item, "predicates"))
             predicate_k == GetAttr(first, "k_number", Str(""))
             predicate_name == GetAttr(first, "device_name", Str(""))
             predicate ==
                 IF HasKey(item, "predicates") /\ Truthy(Lookup(item, "predicates"))
                 THEN IF IsExc(predicate_k) THEN predicate_k
                      ELSE IF Truthy(predicate_k) /\ Truthy(predicate_name)
                      THEN Cat(<<Str("K"), PyStr(predicate_k), Str(" - "), PyStr(predicate_name)>>)
                      ELSE Str("Not specified")
                 ELSE Str("Not specified")
             summary ==
                 IF HasKey(item, "summary") /\ Truthy(Lookup(item, "summary"))
                 THEN Cat(<<Str("**Summary:** "),
                            PyStr(Truncate300(Lookup(item, "summary"))), Str("\n\n")>>)
                 ELSE Str("")
         IN Cat(<<Str("### "), PyStr(device_name), Str(" (K"), PyStr(k_number), Str(")\n"),
                  Str("- **Manufacturer:** "), PyStr(manufacturer), Str("\n"),
                  Str("- **Clearance Date:** "), PyStr(decision_date), Str("\n"),
                  Str("- **Product Code:** "), PyStr(product_code), Str("\n"),
                  Str("- **Device Class:** "), PyStr(device_class), Str("\n"),
                  Str("- **Predicate Device:** "), PyStr(predicate), Str("\n\n"),
                  summary,
                  Str("---\n\n")>>)

\* _format_pma_results, lines 290-310: one record
SinglePmaItem(item) ==
    IF item.t # "obj"
    THEN IF InRaises(item) THEN InError(item) ELSE GetAttr(item, "approval_date", None)
    ELSE LET openfda == Lookup(item, "openfda")
             names == Subscript(openfda, "device_name")
             device_name ==
                 IF ~HasKey(item, "openfda") THEN Str("Unknown Device")
                 ELSE IF InRaises(openfda) THEN InError(openfda)
                 ELSE IF ~InHolds("device_name", openfda) THEN Str("Unknown Device")
                 ELSE IF IsExc(names) THEN names
                 ELSE IF Truthy(names) THEN Index0(names)
                 ELSE Str("Unknown Device")
             approval_date == Get(item, "approval_date", Str("Unknown Date"))
             applicant == Get(item, "applicant", Str("Unknown Manufacturer"))
             pma_number == Get(item, "pma_number", Str("Unknown"))
             product_code == Get(item, "product_code", Str("Unknown"))
             expedited ==
                 IF HasKey(item, "expedited_review_flag")
                 THEN Str("- **Expedited Review:** "
                          \o (IF Truthy(Lookup(item, "expedited_review_flag"))
                              THEN "Yes" ELSE "No")
                          \o "\n")
                 ELSE Str("")
         IN Cat(<<Str("### "), PyStr(device_name), Str(" ("), PyStr(pma_number), Str(")\n"),
                  Str("- **Manufacturer:** "), PyStr(applicant), Str("\n"),
                  Str("- **Approval Date:** "), PyStr(approval_date), Str("\n"),
                  Str("- **Product Code:** "), PyStr(product_code), Str("\n"),
                  expedited,
                  Str("\n---\n\n")>>)

\* An optional line of a record: "- **label:** value\n" when the key is present
OptionalLine(item, key, label) ==
    IF HasKey(item, key)
    THEN Cat(<<Str("- **" \o label \o ":** "), PyStr(Lookup(item, key)), Str("\n")>>)
    ELSE Str("")

\* _format_recall_results, lines 317-340: one record
SingleRecallItem(item) ==
    IF item.t # "obj" THEN GetAttr(item, "product_description", None)
    ELSE LET product == Get(item, "product_description", Str("Unknown Product"))
             reason == Get(item, "reason_for_recall", Str("Unknown Reason"))
             date == Get(item, "recall_initiation_date", Str("Unknown Date"))
             manufacturer == Get(item, "recalling_firm", Str("Unknown Manufacturer"))
             classification == Get(item, "classification", Str("Unknown"))
         IN Cat(<<Str("### "), PyStr(product), Str("\n"),
                  Str("- **Manufacturer:** "), PyStr(manufacturer), Str("\n"),
                  Str("- **Date Initiated:** "), PyStr(date), Str("\n"),
                  Str("- **Classification:** "), PyStr(classification), Str("\n"),
                  Str("- **Reason for Recall:** "), PyStr(reason), Str("\n"),
                  OptionalLine(item, "voluntary_mandated", "Type"),
                  OptionalLine(item, "status", "Status"),
                  Str("\n---\n\n")>>)

\* _format_event_results, lines 381-386: the lines of one mdr_text entry
MdrTextEntry(text_entry) ==
    LET code == GetAttr(text_entry, "text_type_code", None)
        description == GetAttr(text_entry, "text", Str("No description available"))
    IN IF IsExc(code) THEN code
       ELSE IF code # Str("D") THEN Str("")
       ELSE IF ~HasLen(description) THEN LenError(description)
       ELSE Cat(<<Str("\n**Event Description:** "),
                  PyStr(Truncate300(description)), Str("\n")>>)

\* _format_event_results, lines 348-388: one record
SingleEventItem(item) ==
    IF item.t # "obj"
    THEN IF InRaises(item) THEN InError(item) ELSE GetAttr(item, "event_type", None)
    ELSE LET device ==
                 IF HasKey(item, "device") /\ Truthy(Lookup(item, "device"))
                 THEN Index0(Lookup(item, "device"))
                 ELSE Obj(<<>>)
             device_name == GetAttr(device, "brand_name", Str("Unknown Device"))
             manufacturer == GetAttr(device, "manufacturer_d_name", Str("Unknown Manufacturer"))
             event_type == Get(item, "event_type", Str("Unknown Event Type"))
             date == Get(item, "date_received", Str("Unknown Date"))
             problems ==
                 IF HasKey(item, "device_problem") /\ Truthy(Lookup(item, "device_problem"))
                 THEN Cat(<<Str("- **Device Problems:** "),
                            JoinValue(Lookup(item, "device_problem")), Str("\n")>>)
                 ELSE Str("")
             patient == Index0(Lookup(item, "patient"))
             outcomes ==
                 IF HasKey(item, "patient") /\ Truthy(Lookup(item, "patient"))
                 THEN IF IsExc(patient) THEN patient
                      ELSE IF InRaises(patient) THEN InError(patient)
                      ELSE IF InHolds("sequence_number_outcome", patient)
                      THEN Cat(<<Str("- **Patient Outcomes:** "),
                                 JoinValue(Subscript(patient, "sequence_number_outcome")),
                                 Str("\n")>>)
                      ELSE Str("")
                 ELSE Str("")
             texts ==
                 IF HasKey(item, "mdr_text") /\ Truthy(Lookup(item, "mdr_text"))
                 THEN LET e == Elements(Lookup(item, "mdr_text"))
                      IN Cat([i \in 1..Len(e) |-> MdrTextEntry(e[i])])
                 ELSE Str("")
         IN Cat(<<Str("### "), PyStr(device_name), Str(" Adverse Event\n"),
                  Str("- **Manufacturer:** "), PyStr(manufacturer), Str("\n"),
                  Str("- **Event Type:** "), PyStr(event_type), Str("\n"),
                  Str("- **Report Date:** "), PyStr(date), Str("\n"),
                  OptionalLine(item, "source_type", "Report Source"),
                  problems,
                  outcomes,
                  texts,
                  Str("\n---\n\n")>>)

\* The distinct elements of a sequence, in the order of their first occurrence
RECURSIVE Distinct(_)
Distinct(q) ==
    IF q = <<>> THEN <<>>
    ELSE LET rest == Distinct(SubSeq(q, 1, Len(q) - 1))
         IN IF \E i \in 1..Len(rest) : rest[i] = q[Len(q)]
            THEN rest ELSE Append(rest, q[Len(q)])

Reverse(q) == [i \in 1..Len(q) |-> q[Len(q) + 1 - i]]

\* _format_registration_results, lines 412-416: the product codes line.  The
\* order of list(set(...)) is not determined by the code: flip chooses between
\* the order of first occurrence and its reverse (all the orders there are
\* for at most two distinct codes).
ProductCodesLine(products, flip) ==
    LET e == Elements(products)
        codes == [i \in 1..Len(e) |-> GetAttr(e[i], "product_code", Str(""))]
        raising == {i \in 1..Len(e) : IsExc(codes[i])}
        kept == SelectSeq(codes, Truthy)
        unhashable == {i \in 1..Len(kept) : kept[i].t \in {"list", "obj"}}
        unique == Distinct(kept)
    IN IF raising # {} THEN codes[CHOOSE i \in raising : \A j \in raising : i <= j]
       ELSE IF unhashable # {}
       THEN Exc("unhashable type: '"
                \o TypeName(kept[CHOOSE i \in unhashable : \A j \in unhashable : i <= j])
                \o "'")
       ELSE IF unique = <<>> THEN Str("")
       ELSE Cat(<<Str("- **Product Codes:** "),
                  JoinValue(List(IF flip THEN Reverse(unique) ELSE unique)),
                  Str("\n")>>)

\* _format_registration_results, lines 396-418: one record
SingleRegistrationItem(item, flip) ==
    IF item.t # "obj" THEN GetAttr(item, "name", None)
    ELSE LET name == Get(item, "name", Str("Unknown Company"))
             reg_num == Get(item, "registration_number", Str("Unknown"))
             address == Get(item, "address_line_1", Str(""))
             city == Get(item, "city", Str(""))
             state == Get(item, "state", Str(""))
             country == Get(item, "country_code", Str(""))
             products ==
                 IF HasKey(item, "products") /\ Truthy(Lookup(item, "products"))
                 THEN ProductCodesLine(Lookup(item, "products"), flip)
                 ELSE Str("")
         IN Cat(<<Str("### "), PyStr(name), Str(" (Reg# "), PyStr(reg_num), Str(")\n"),
                  Str("- **Address:** "), PyStr(address), Str(", "), PyStr(city), Str(", "),
                  PyStr(state), Str(", "), PyStr(country), Str("\n"),
                  OptionalLine(item, "establishment_type", "Establishment Type"),
                  products,
                  Str("\n---\n\n")>>)

SingleItem(db_type, item, flip) ==
    IF db_type = "510k" THEN Single510kItem(item)
    ELSE IF db_type = "pma" THEN SinglePmaItem(item)
    ELSE IF db_type = "recall" THEN SingleRecallItem(item)
    ELSE IF db_type = "event" THEN SingleEventItem(item)
    ELSE SingleRegistrationItem(item, flip)

\* _format_results: the text, or the exception that left the function
_format_results(results, db_type, flip) ==
    IF ~Truthy(results) \/ ~HasKey(results, "results") \/ ~Truthy(Lookup(results, "results"))
    THEN Str("No results found in the FDA " \o db_type \o " database for this query.")
    ELSE LET e == Elements(Lookup(results, "results"))
         IN Cat(<<Str("## FDA " \o Upper(db_type) \o " Database Results\n\n"),
                  IF db_type \in {"510k", "pma", "recall", "event", "registrationlisting"}
                  THEN Cat([i \in 1..Len(e) |-> SingleItem(db_type, e[i], flip)])
                  ELSE Str(""),
                  Str("\n\nSource: FDA " \o Upper(db_type) \o " Database via api.fda.gov")>>)

\* run's outer handler, re-raising instead of returning the error text
RunExcept_Reraise(msg) == [kind |-> "raise", text |-> msg]

\* run, lines 91-94: the handler of run's outer try
RunExcept(msg) ==
    [kind |-> "return", text |-> "Error searching FDA database: " \o msg]

\* A text that run returns, or the exception that left the code computing it
\* and reached the outer handler
RunReturn(v) ==
    IF IsExc(v) THEN RunExcept(v.s) ELSE [kind |-> "return", text |-> v.s]

\* An "all" mode iteration in which a failed query is not caught
AllIteration_Escape(results, db, out) ==
    IF out.ok
    THEN [exc |-> FALSE, msg |-> "",
          results |-> IF HoldsRecords(out.v)
                      THEN Append(results, <<db, out.v>>)
                      ELSE results]
    ELSE [exc |-> TRUE, msg |-> out.msg, results |-> results]

\* run, lines 60-72: one iteration of the loop of "all" mode on the result of
\* _search_database; the dict results after it, and whether an exception
\* leaves the iteration
AllIteration(results, db, out) ==
    IF out.ok
    THEN [exc |-> FALSE, msg |-> "",
          results |-> IF HoldsRecords(out.v)
                      THEN Append(results, <<db, out.v>>)
                      ELSE results]
    ELSE [exc |-> FALSE, msg |-> "", results |-> results]

\* "all" mode sending the caller's limit as it came
AllModeLimit_Caller(limit) == limit

\* run, line 63: the limit sent to each database in "all" mode
AllModeLimit(limit) == Max(2, limit \div 2)

\* "all" mode formatting whatever the loop gathered, an empty dict included
AllReturn_AlwaysFormat(results, query) == RunReturn(_format_multi_results(results))

\* run, lines 74-77: what "all" mode returns after the loop
AllReturn(results, query) ==
    IF results # <<>>
    THEN RunReturn(_format_multi_results(results))
    ELSE RunReturn(Str("No results found in any FDA database for the query: '" \o query
                       \o "'. Please try a different search term or check the FDA website directly at https://www.fda.gov/medical-devices"))

\* run, lines 84-89: what single-database mode returns on the result of
\* _search_database
SingleReturn(out, database, query, flip) ==
    IF ~out.ok THEN RunExcept(out.msg)
    ELSE IF HoldsRecords(out.v)
    THEN RunReturn(_format_results(out.v, database, flip))
    ELSE RunReturn(Str("No results found in the FDA " \o database
                       \o " database for the query: '" \o query
                       \o "'. Please try a different search term."))

-----------------------------------------------------------------------------
(* The inputs of a turn and the behaviours of the collaborators *)

Utterances ==
    {"what is the latest recall on insulin pumps",
     "hello there",
     "Tell me about the Everion sensor",
     "FDA status of a stent or pacemaker",
     "recent 510k clearance for catheter",
     "is there a PMA approval",
     "web search heart valve news"}

UserInputs == {Str(u) : u \in Utterances} \cup {None}

DocOutcomes ==
    {Returned(""),
     Returned("No relevant documents."),
     Returned("Everion manual: wearable sensor, rev 2"),
     Returned("K123456 is the 510k clearance record."),
     Returned("  no match              "),
     Returned("Current firmware: latest revision is 2.1"),
     Raised("Search timeout"),
     Raised("recall index offline")}

FdaOutcomes ==
    {Returned(""),
     Returned("No results found in the FDA recall database."),
     Raised("connection refused")}

WebOutcomes ==
    {Returned(""),
     Returned("Current Web Results: none"),
     Raised("rate limited")}

CompletionOutcomes ==
    {[env |-> "nokey", out |-> Returned("")],
     [env |-> "clientfail", out |-> Raised("bad proxies argument")],
     [env |-> "ok", out |-> Returned("Here is the answer.")],
     [env |-> "ok", out |-> Raised("Connection error.")]}

NoReturn == [kind |-> "none", text |-> ""]

-----------------------------------------------------------------------------
(* Agent.process, one action per step of its body *)

\* No call of run is in progress
FdaIdle ==
    /\ f_pc = "idle"
    /\ f_query = ""
    /\ f_database = ""
    /\ f_limit = 0
    /\ f_i = 1
    /\ f_results = <<>>
    /\ f_requests = <<>>
    /\ f_responses = <<>>
    /\ f_ret = NoReturn

\* The chat has no message
ChatIdle == messages = <<>>

\* The function was not applied yet
Pending == [t |-> "pending", s |-> "", q |-> <<>>]

\* No pure function is under check
PureIdle ==
    /\ p_fn = ""
    /\ p_args = <<>>
    /\ p_out = Pending

\* No call of process is in progress
AgentIdle ==
    /\ user_input = None
    /\ tool_results = <<>>
    /\ pc = "idle"
    /\ ret = NoReturn
    /\ prompt = ""
    /\ calls = <<>>
    /\ raised = {}
    /\ turn = 0

AgentInit ==
    /\ tools \in SUBSET ToolNames
    /\ AgentIdle
    /\ FdaIdle
    /\ ChatIdle
    /\ PureIdle

\* process is called on the evidence list of the call before
ProcessStart_KeepEvidence ==
    /\ pc = "idle"
    /\ turn < MaxTurns
    /\ \E u \in UserInputs : user_input' = u
    /\ pc' = "step1"
    /\ ret' = NoReturn
    /\ prompt' = ""
    /\ calls' = <<>>
    /\ raised' = {}
    /\ turn' = turn + 1
    /\ UNCHANGED <<tools, tool_results, fdaVars, pureVars, chatVars>>

\* process is called: line 36
ProcessStart ==
    /\ pc = "idle"
    /\ turn < MaxTurns
    /\ \E u \in UserInputs : user_input' = u
    /\ tool_results' = <<>>
    /\ pc' = "step1"
    /\ ret' = NoReturn
    /\ prompt' = ""
    /\ calls' = <<>>
    /\ raised' = {}
    /\ turn' = turn + 1
    /\ UNCHANGED <<tools, fdaVars, pureVars, chatVars>>

\* An exception reached the outer handler: process returns its text
ToOuterExcept(msg) ==
    /\ ret' = OuterExcept(msg)
    /\ pc' = "idle"

\* Step 1, lines 40-47, with a document search that ends in one of outs
Step1On(outs) ==
    /\ pc = "step1"
    /\ IF _find_tool_by_name("file_search")
       THEN \E out \in outs :
              LET step == VectorStep(tool_results, out)
              IN /\ calls' = Append(calls, [tool |-> "file_search", args |-> <<user_input>>,
                                            out |-> out])
                 /\ raised' = IF out.ok THEN raised ELSE raised \cup {"file_search"}
                 /\ IF step.exc
                    THEN ToOuterExcept(step.msg) /\ UNCHANGED tool_results
                    ELSE tool_results' = step.results /\ pc' = "step2" /\ UNCHANGED ret
       ELSE pc' = "step2" /\ UNCHANGED <<tool_results, calls, raised, ret>>
    /\ UNCHANGED <<tools, user_input, prompt, turn, fdaVars, pureVars, chatVars>>

\* Step 1 with a black-box document search
Step1 ==
    /\ pc = "step1"
    /\ Step1On(DocOutcomes)

\* Step 2, lines 50-60
Step2 ==
    /\ pc = "step2"
    /\ IF user_input.t # "str"
       THEN \* line 87: user_input + " " raises TypeError, caught at line 75
            /\ ToOuterExcept(NoneConcatError)
            /\ UNCHANGED <<tool_results, calls, raised>>
       ELSE IF _find_tool_by_name("fda_medical_device")
               /\ _needs_fda_search(user_input.s, tool_results)
       THEN \E out \in FdaOutcomes :
              LET params == _get_fda_search_params(user_input.s, tool_results)
                  step == FdaStep(tool_results, out)
              IN /\ calls' = Append(calls, [tool |-> "fda_medical_device",
                                            args |-> <<Str(params[1]), Str(params[2])>>,
                                            out |-> out])
                 /\ raised' = IF out.ok THEN raised ELSE raised \cup {"fda_medical_device"}
                 /\ IF step.exc
                    THEN ToOuterExcept(step.msg) /\ UNCHANGED tool_results
                    ELSE tool_results' = step.results /\ pc' = "step3" /\ UNCHANGED ret
       ELSE pc' = "step3" /\ UNCHANGED <<tool_results, calls, raised, ret>>
    /\ UNCHANGED <<tools, user_input, prompt, turn, fdaVars, pureVars, chatVars>>

\* Step 3, lines 63-70, with a web search that ends in one of outs
Step3On(outs) ==
    /\ pc = "step3"
    /\ IF WantsWebSearch(user_input.s) /\ _find_tool_by_name("web_search")
       THEN \E out \in outs :
              LET step == WebStep(tool_results, out)
              IN /\ calls' = Append(calls, [tool |-> "web_search", args |-> <<user_input>>,
                                            out |-> out])
                 /\ raised' = IF out.ok THEN raised ELSE raised \cup {"web_search"}
                 /\ IF step.exc
                    THEN ToOuterExcept(step.msg) /\ UNCHANGED tool_results
                    ELSE tool_results' = step.results /\ pc' = "step4" /\ UNCHANGED ret
       ELSE pc' = "step4" /\ UNCHANGED <<tool_results, calls, raised, ret>>
    /\ UNCHANGED <<tools, user_input, prompt, turn, fdaVars, pureVars, chatVars>>

\* Step 3 with a black-box web search
Step3 ==
    /\ pc = "step3"
    /\ Step3On(WebOutcomes)

\* Step 4, line 73: _generate_response, and process returns what it returns
\* (an exception of _generate_response would reach the handler of line 75)
Step4 ==
    /\ pc = "step4"
    /\ prompt' = BuildPrompt(user_input.s, tool_results)
    /\ \E c \in CompletionOutcomes :
         /\ LET r == _generate_response(c)
            IN ret' = IF r.kind = "raise" THEN OuterExcept(r.text) ELSE r
         /\ calls' = IF c.env = "ok"
                     THEN Append(calls, [tool |-> "completion", args |-> <<Str(prompt')>>,
                                         out |-> c.out])
                     ELSE calls
         /\ raised' = IF c.env = "ok" /\ ~c.out.ok THEN raised \cup {"completion"} ELSE raised
    /\ pc' = "idle"
    /\ UNCHANGED <<tools, user_input, tool_results, turn, fdaVars, pureVars, chatVars>>

AgentNext == ProcessStart \/ Step1 \/ Step2 \/ Step3 \/ Step4

Spec == AgentInit /\ [][AgentNext]_vars

-----------------------------------------------------------------------------
(* Reading the evidence list: each block names its source by its heading *)

IsErrorBlock(b) ==
    \/ StartsWith(b, "**Vector Store Error:** ")
    \/ StartsWith(b, "**FDA Search Error:** ")
    \/ StartsWith(b, "**Web Search Error:** ")

\* 1: document search, 2: regulatory data, 3: web search, 0: none of them
SourceOf(b) ==
    IF StartsWith(b, "## Internal Documents\n") \/ StartsWith(b, "**Vector Store Error:** ")
    THEN 1
    ELSE IF StartsWith(b, "## FDA Database Results\n") \/ StartsWith(b, "**FDA Search Error:** ")
    THEN 2
    ELSE IF StartsWith(b, "## Web Search Results\n") \/ StartsWith(b, "**Web Search Error:** ")
    THEN 3
    ELSE 0

SourceNumber(tool) ==
    IF tool = "file_search" THEN 1 ELSE IF tool = "fda_medical_device" THEN 2 ELSE 3

BlocksOf(n) == SelectSeq(tool_results, LAMBDA b : SourceOf(b) = n)

ErrorBlocksOf(n) == SelectSeq(BlocksOf(n), IsErrorBlock)

Called(tool) == \E i \in 1..Len(calls) : calls[i].tool = tool

\* process has returned
Finished == pc = "idle" /\ turn > 0

\* The condition under which the code runs each source's step
Triggered(tool) ==
    /\ tool \in tools
    /\ tool = "fda_medical_device" => _needs_fda_search(user_input.s, BlocksOf(1))
    /\ tool = "web_search" => WantsWebSearch(user_input.s)

\* The first position at or after `from` where block b lies in text s, 0 if none
IndexFrom(s, b, from) ==
    LET hits == {i \in from..(Len(s) - Len(b) + 1) : SubSeq(s, i, i + Len(b) - 1) = b}
    IN IF hits = {} THEN 0 ELSE CHOOSE i \in hits : \A j \in hits : i <= j

\* The blocks lie in s one after the other, in the order of the list
RECURSIVE InOrderFrom(_, _, _)
InOrderFrom(s, blocks, from) ==
    IF blocks = <<>> THEN TRUE
    ELSE LET at == IndexFrom(s, blocks[1], from)
         IN at > 0 /\ InOrderFrom(s, Tail(blocks), at + Len(blocks[1]))

-----------------------------------------------------------------------------
(* Claims on Agent.process *)

\* C1: when process has returned on a text utterance, every source whose
\* trigger condition held was invoked, whichever of the earlier sources
\* raised; each source that raised left exactly one error-labelled block of
\* its own; and the synthesis step was reached (the prompt was built).
C1_FailureIsolation ==
    (Finished /\ user_input.t = "str") =>
        /\ prompt # ""
        /\ \A tool \in ToolNames :
              /\ Triggered(tool) => Called(tool)
              /\ tool \in raised => Len(ErrorBlocksOf(SourceNumber(tool))) = 1
              /\ tool \notin raised => Len(ErrorBlocksOf(SourceNumber(tool))) = 0

\* All three sources raised in one turn, and the turn still reached synthesis.
C1_Witness ==
    /\ Finished
    /\ ToolNames \subseteq raised
    /\ Len(calls) >= 3
    /\ prompt # ""

\* C2: process never ends with an exception: once it has returned, the
\* result is a text; a fault outside the per-step handlers (here the
\* TypeError of a None utterance) gives the text "I encountered an error
\* processing your request: ...", and a failed completion call gives a text too.
C2_NoEscape ==
    /\ ret.kind \in {"none", "return"}
    /\ Finished => ret.kind = "return"
    /\ (Finished /\ user_input.t # "str") =>
          StartsWith(ret.text, "I encountered an error processing your request")
    /\ (Finished /\ "completion" \in raised) =>
          StartsWith(ret.text, "Error generating response: ")

\* A None utterance made the fault, with the document search having raised too.
C2_Witness ==
    /\ Finished
    /\ user_input.t # "str"
    /\ "file_search" \in raised
    /\ ret = OuterExcept(NoneConcatError)

\* The ordering part of C3: the evidence list never holds more than three
\* blocks, every block is of one of the three sources, the sources strictly
\* increase along the list (document search, regulatory data, web search; so
\* at most one block per source), and the prompt holds the blocks one after
\* the other in that order.
BlocksInSourceOrder ==
    /\ Len(tool_results) <= 3
    /\ \A i \in 1..Len(tool_results) : SourceOf(tool_results[i]) \in 1..3
    /\ \A i, j \in 1..Len(tool_results) :
          i < j => SourceOf(tool_results[i]) < SourceOf(tool_results[j])
    /\ prompt # "" => InOrderFrom(prompt, tool_results, 1)

ExampleTurn ==
    /\ Finished
    /\ tools = ToolNames
    /\ user_input = Str("what is the latest recall on insulin pumps")

\* The invocations of the example turn, the regulatory one with query q
ExampleCalls(q) ==
    /\ Len(calls) >= 3
    /\ calls[1].tool = "file_search" /\ calls[1].args = <<user_input>>
    /\ calls[2].tool = "fda_medical_device" /\ calls[2].args = <<Str(q), Str("recall")>>
    /\ calls[3].tool = "web_search" /\ calls[3].args = <<user_input>>
    /\ Len(BlocksOf(3)) = 1

\* C3 as stated: the ordering, and for "what is the latest recall on insulin
\* pumps" with all three collaborators the regulatory invocation is for
\* ("insulin pump", "recall"), between the document and the web search.
C3_Original == BlocksInSourceOrder /\ (ExampleTurn => ExampleCalls("insulin pump"))

\* C3 as amended: the ordering, and in the example turn the regulatory
\* invocation is for database "recall" with the query "insulin pump" unless
\* the document-search block names "everion" or "biofourmis", which come
\* first in the device keyword list and then are the query.
C3_BlockOrder ==
    /\ BlocksInSourceOrder
    /\ ExampleTurn =>
          LET doc == Lower(Join(" ", BlocksOf(1)))
          IN ExampleCalls(IF Contains(doc, "everion") THEN "everion"
                          ELSE IF Contains(doc, "biofourmis") THEN "biofourmis"
                          ELSE "insulin pump")

\* The example turn ended with three blocks, one per source, in the prompt.
C3_Witness ==
    /\ Finished
    /\ user_input = Str("what is the latest recall on insulin pumps")
    /\ Len(tool_results) = 3
    /\ SourceOf(tool_results[1]) = 1
    /\ ~IsErrorBlock(tool_results[2])
    /\ InOrderFrom(prompt, tool_results, 1)

-----------------------------------------------------------------------------
(* Claims on the source steps of Agent.process *)

\* Step 2 of the turn is over (the utterance is a text)
PastStep2 == user_input.t = "str" /\ (pc \in {"step3", "step4"} \/ Finished)

\* Step 3 of the turn is over
PastStep3 == user_input.t = "str" /\ (pc = "step4" \/ Finished)

RegulatoryKeywords ==
    {"fda", "recall", "510k", "clearance", "approval", "pma", "medical device",
     "adverse event", "regulatory", "maude"}

\* C11: once step 2 is over, the regulatory collaborator was invoked if and
\* only if it is configured and one of the ten keywords lies in the
\* lower-cased text of the utterance, a space, and the evidence of the
\* document-search step (its error block included).
C11_RegulatoryTrigger ==
    PastStep2 =>
        (Called("fda_medical_device")
            <=> /\ "fda_medical_device" \in tools
                /\ \E k \in RegulatoryKeywords :
                       Contains(Lower(user_input.s \o " " \o Join(" ", BlocksOf(1))), k))

\* "hello there" has no keyword; the document search raised "recall index
\* offline", and its error block made the regulatory collaborator run
C11_Witness ==
    /\ Finished
    /\ user_input = Str("hello there")
    /\ "file_search" \in raised
    /\ Called("fda_medical_device")

\* The invocation of a collaborator in this turn (it is invoked at most once)
CallOf(tool) == calls[CHOOSE i \in 1..Len(calls) : calls[i].tool = tool]

\* C14: once step 3 is over, the web-search collaborator was invoked if and
\* only if it is configured and the lower-cased utterance holds "web search",
\* "latest", "recent" or "current" (the evidence gathered is not read); it was
\* invoked with the utterance as it came, and the last evidence block is
\* "## Web Search Results" with its output, or "**Web Search Error:**" with
\* the message if it raised; without the invocation there is no such block.
C14_WebTrigger ==
    PastStep3 =>
        /\ Called("web_search")
              <=> /\ "web_search" \in tools
                  /\ \E t \in {"web search", "latest", "recent", "current"} :
                         Contains(Lower(user_input.s), t)
        /\ Called("web_search") =>
              /\ CallOf("web_search").args = <<user_input>>
              /\ tool_results # <<>>
              /\ tool_results[Len(tool_results)]
                     = IF CallOf("web_search").out.ok
                       THEN "## Web Search Results\n" \o CallOf("web_search").out.v
                       ELSE "**Web Search Error:** " \o CallOf("web_search").out.msg
              /\ Len(BlocksOf(3)) = 1
        /\ ~Called("web_search") => BlocksOf(3) = <<>>

\* "recent 510k clearance for catheter": the web search ran after the two
\* other sources and raised, and its error block closes the list
C14_Witness ==
    /\ Finished
    /\ user_input = Str("recent 510k clearance for catheter")
    /\ Len(calls) >= 3
    /\ calls[3].tool = "web_search"
    /\ calls[3].args = <<Str("recent 510k clearance for catheter")>>
    /\ tool_results[Len(tool_results)] = "**Web Search Error:** rate limited"

-----------------------------------------------------------------------------
(* The records and responses of the regulatory backend *)

LongReason ==
    "The battery may deplete earlier than labeled, which can interrupt therapy without any prior alarm to the user."

Recall1 ==
    Obj(<< <<"product_description", Str("Pump A")>>,
           <<"reason_for_recall", Str("battery fault")>>,
           <<"recall_initiation_date", Str("2024-01-05")>>,
           <<"recalling_firm", Str("Acme")>>,
           <<"classification", Str("Class II")>>,
           <<"status", Str("Ongoing")>> >>)
Recall2 == Obj(<< <<"product_description", Str("Pump B")>> >>)
Recall3 ==
    Obj(<< <<"product_description", Str("Pump C")>>,
           <<"reason_for_recall", Str(LongReason)>>,
           <<"voluntary_mandated", Str("Voluntary")>> >>)
\* reason_for_recall present with a null value
RecallNull ==
    Obj(<< <<"product_description", Str("Pump N")>>,
           <<"reason_for_recall", None>> >>)

Event1 ==
    Obj(<< <<"device", List(<<Obj(<< <<"brand_name", Str("Valve A")>>,
                                     <<"manufacturer_d_name", Str("Acme")>> >>)>>)>>,
           <<"event_type", Str("Malfunction")>>,
           <<"date_received", Str("20240105")>>,
           <<"source_type", Str("Manufacturer report")>>,
           <<"device_problem", List(<<Str("Leak"), Str("Break")>>)>>,
           <<"patient", List(<<Obj(<< <<"sequence_number_outcome",
                                        List(<<Str("Recovered")>>)>> >>)>>)>>,
           <<"mdr_text", List(<<Obj(<< <<"text_type_code", Str("D")>>,
                                       <<"text", Str("Valve leaked.")>> >>)>>)>> >>)
Event2 == Obj(<< <<"device", List(<<>>)>>, <<"event_type", Str("Injury B")>> >>)
Event3 ==
    Obj(<< <<"device", List(<<Obj(<< <<"brand_name", Str("Valve C")>> >>)>>)>>,
           <<"mdr_text", List(<<Obj(<< <<"text_type_code", Str("N")>>,
                                       <<"text", Str("Note.")>> >>)>>)>> >>)
\* the first element of the device list is not a mapping
EventBadDevice == Obj(<< <<"device", List(<<Str("Valve X")>>)>> >>)

K510_1 ==
    Obj(<< <<"device_name", Str("Stent A")>>,
           <<"k_number", Str("111111")>>,
           <<"applicant", Str("Acme")>>,
           <<"decision_date", Str("2023-03-01")>>,
           <<"product_code", Str("ABC")>>,
           <<"device_class", Str("2")>>,
           <<"predicates", List(<<Obj(<< <<"k_number", Str("000001")>>,
                                         <<"device_name", Str("Old Stent")>> >>)>>)>>,
           <<"summary", Str("A coronary stent.")>> >>)
K510_2 == Obj(<< <<"device_name", Str("Stent B")>>, <<"owner_operator", Str("Beta")>> >>)
K510_3 ==
    Obj(<< <<"device_name", Str("Stent C")>>,
           <<"applicant", Str("")>>,
           <<"manufacturer", Str("Gamma")>>,
           <<"predicates", List(<<>>)>> >>)
\* the first element of the predicates list is not a mapping
K510BadPredicate ==
    Obj(<< <<"device_name", Str("Stent X")>>, <<"predicates", List(<<None>>)>> >>)

Pma1 ==
    Obj(<< <<"openfda", Obj(<< <<"device_name", List(<<Str("Lead A")>>)>> >>)>>,
           <<"pma_number", Str("P100001")>>,
           <<"applicant", Str("Acme")>>,
           <<"approval_date", Str("2022-02-02")>>,
           <<"product_code", Str("XYZ")>>,
           <<"expedited_review_flag", Str("N")>> >>)
Pma2 == Obj(<< <<"pma_number", Str("P100002")>> >>)
Pma3 ==
    Obj(<< <<"openfda", Obj(<< <<"device_name", List(<<>>)>> >>)>>,
           <<"pma_number", Str("P100003")>> >>)
\* openfda present with a null value
PmaNullOpenfda == Obj(<< <<"openfda", None>>, <<"pma_number", Str("P100009")>> >>)

Reg1 ==
    Obj(<< <<"name", Str("Acme GmbH")>>,
           <<"registration_number", Str("3001")>>,
           <<"address_line_1", Str("1 Main St")>>,
           <<"city", Str("Bonn")>>,
           <<"state", Str("NW")>>,
           <<"country_code", Str("DE")>>,
           <<"establishment_type", Str("Manufacturer")>>,
           <<"products", List(<<Obj(<< <<"product_code", Str("ABC")>> >>),
                                Obj(<< <<"product_code", Str("ABC")>> >>)>>)>> >>)
Reg2 == Obj(<< <<"name", Str("Beta Ltd")>> >>)
Reg3 == Obj(<< <<"name", Str("Gamma Inc")>>, <<"products", List(<<Obj(<<>>)>>)>> >>)
\* the first element of the products list is not a mapping
RegBadProduct == Obj(<< <<"name", Str("Delta SA")>>, <<"products", List(<<None>>)>> >>)

\* Per database: three well-formed records (fields missing in some) and a
\* malformed one
RecordPool(db) ==
    IF db = "recall" THEN <<Recall1, Recall2, Recall3, RecallNull>>
    ELSE IF db = "event" THEN <<Event1, Event2, Event3, EventBadDevice>>
    ELSE IF db = "510k" THEN <<K510_1, K510_2, K510_3, K510BadPredicate>>
    ELSE IF db = "pma" THEN <<Pma1, Pma2, Pma3, PmaNullOpenfda>>
    ELSE <<Reg1, Reg2, Reg3, RegBadProduct>>

\* The text by which a record is recognised in a report
MarkerOf(item) ==
    IF HasKey(item, "product_description") THEN Lookup(item, "product_description").s
    ELSE IF HasKey(item, "device_name") THEN Lookup(item, "device_name").s
    ELSE IF HasKey(item, "pma_number") THEN Lookup(item, "pma_number").s
    ELSE IF HasKey(item, "name") THEN Lookup(item, "name").s
    ELSE IF HasKey(item, "event_type") THEN Lookup(item, "event_type").s
    ELSE LET first == Lookup(item, "device").q[1]
         IN IF first.t = "obj" THEN Lookup(first, "brand_name").s ELSE first.s

BodyOf(records) == Obj(<< <<"meta", Obj(<<>>)>>, <<"results", List(records)>> >>)
BodyWithoutResults == Obj(<< <<"meta", Obj(<<>>)>> >>)

\* The record lists the backend answers with in the model of run
RecordLists(db) ==
    LET r == RecordPool(db)
    IN {<<r[1]>>, <<r[1], r[2], r[3]>>, <<r[2], r[1], r[4]>>, <<r[4]>>}

Responses(db) ==
    {TransportFault("Read timed out."),
     HttpResponse(503, None),
     HttpResponse(404, None),
     HttpResponse(200, Exc("Expecting value: line 1 column 1 (char 0)")),
     HttpResponse(200, BodyWithoutResults),
     HttpResponse(200, BodyOf(<<>>))}
    \cup {HttpResponse(200, BodyOf(l)) : l \in RecordLists(db)}

Queries == {"pacemaker", "heart valve"}
Databases == {"all", "recall", "event", "510k", "pma", "registrationlisting"}
Limits == {1, 5, 7}

-----------------------------------------------------------------------------
(* FDAMedicalDeviceTool.run, one action per backend request *)

\* run is called: lines 38-57
RunStart ==
    /\ f_pc = "idle"
    /\ \E q \in Queries, d \in Databases, l \in Limits :
         /\ f_query' = q
         /\ f_database' = d
         /\ f_limit' = l
         /\ f_pc' = IF d = "all" THEN "all" ELSE "single"
    /\ f_i' = 1
    /\ f_results' = <<>>
    /\ f_requests' = <<>>
    /\ f_responses' = <<>>
    /\ f_ret' = NoReturn
    /\ UNCHANGED <<agentVars, pureVars, chatVars>>

\* "all" mode, lines 59-77: the request to db_to_search[f_i], to which the
\* backend answers resp, and after the last database the combined report
AllSearchOn(resp) ==
    /\ f_pc = "all"
    /\ LET db == db_to_search[f_i]
       IN   LET step == AllIteration(f_results, db, _search_database(resp))
            IN /\ f_requests' = Append(f_requests,
                                       RequestOf(f_query, db, AllModeLimit(f_limit)))
               /\ f_responses' = Append(f_responses, resp)
               /\ IF step.exc
                  THEN /\ f_ret' = RunExcept(step.msg)
                       /\ f_pc' = "idle"
                       /\ UNCHANGED <<f_i, f_results>>
                  ELSE /\ f_results' = step.results
                       /\ IF f_i < Len(db_to_search)
                          THEN /\ f_i' = f_i + 1
                               /\ UNCHANGED <<f_pc, f_ret>>
                          ELSE /\ f_ret' = AllReturn(step.results, f_query)
                               /\ f_pc' = "idle"
                               /\ UNCHANGED f_i
    /\ UNCHANGED <<f_query, f_database, f_limit, agentVars, pureVars, chatVars>>

\* "all" mode with each response of the model of run
AllSearch ==
    /\ f_pc = "all"
    /\ \E resp \in Responses(db_to_search[f_i]) : AllSearchOn(resp)

\* Single-database mode, lines 80-89: the request, to which the backend
\* answers resp, and what run returns
SingleSearchOn(resp, flip) ==
    /\ f_pc = "single"
    /\ f_requests' = Append(f_requests, RequestOf(f_query, f_database, f_limit))
    /\ f_responses' = Append(f_responses, resp)
    /\ f_ret' = SingleReturn(_search_database(resp), f_database, f_query, flip)
    /\ f_pc' = "idle"
    /\ UNCHANGED <<f_query, f_database, f_limit, f_i, f_results, agentVars, pureVars, chatVars>>

\* Single-database mode with each response of the model of run
SingleSearch ==
    /\ f_pc = "single"
    /\ \E resp \in Responses(f_database), flip \in BOOLEAN : SingleSearchOn(resp, flip)

FdaNext == RunStart \/ AllSearch \/ SingleSearch

FdaInit ==
    /\ tools = {}
    /\ AgentIdle
    /\ FdaIdle
    /\ ChatIdle
    /\ PureIdle

SpecFDA == FdaInit /\ [][FdaNext]_vars

\* run has returned from "all" mode
AllFinished == f_pc = "idle" /\ f_database = "all" /\ f_ret.kind # "none"

-----------------------------------------------------------------------------
(* Claims on FDAMedicalDeviceTool.run *)

\* The backend targets of "all" mode, in their order
AllModeTargets ==
    <<"https://api.fda.gov/device/recall.json",
      "https://api.fda.gov/device/event.json",
      "https://api.fda.gov/device/510k.json",
      "https://api.fda.gov/device/pma.json">>

\* run has returned from single-database mode
SingleFinished == f_pc = "idle" /\ f_database \notin {"", "all"} /\ f_ret.kind # "none"

\* The backend query succeeded and returned at least one record
Answered(resp) ==
    /\ resp.kind = "http"
    /\ resp.status = 200
    /\ resp.body.t = "obj"
    /\ HasKey(resp.body, "results")
    /\ Lookup(resp.body, "results").t = "list"
    /\ Lookup(resp.body, "results").q # <<>>

\* The backend query succeeded and returned no record
AnsweredEmpty(resp) ==
    /\ resp.kind = "http"
    /\ resp.status = 200
    /\ resp.body.t = "obj"
    /\ ~Answered(resp)

\* The backend query failed: a transport fault, a non-success status, or a
\* body that is not JSON
QueryFailed(resp) == ~Answered(resp) /\ ~AnsweredEmpty(resp)

UpperName(db) ==
    IF db = "recall" THEN "RECALL"
    ELSE IF db = "event" THEN "EVENT"
    ELSE IF db = "510k" THEN "510K"
    ELSE IF db = "pma" THEN "PMA"
    ELSE "REGISTRATIONLISTING"

\* The heading of a database's section in the combined report
SectionHeading(db) == "## " \o UpperName(db) \o " Database\n"

EndsWith(s, k) == Len(k) <= Len(s) /\ SubSeq(s, Len(s) - Len(k) + 1, Len(s)) = k

\* C4: in "all" mode the requests sent so far are, one each and in this
\* order, to recall, event, 510k and pma (so none is repeated and none goes
\* to a target named "all"), and when run has returned all four were sent,
\* whichever of them failed or came back without records.
C4_AllModeRequests ==
    f_database = "all" =>
        /\ Len(f_requests) <= 4
        /\ \A i \in 1..Len(f_requests) : f_requests[i].endpoint = AllModeTargets[i]
        /\ f_pc = "all" => Len(f_requests) = f_i - 1
        /\ AllFinished => Len(f_requests) = 4

\* run has returned after a transport fault on recall, no records from
\* event, a 503 from 510k and records from pma
C4_Witness ==
    /\ AllFinished
    /\ Len(f_requests) = 4
    /\ f_responses[1].kind = "transport"
    /\ AnsweredEmpty(f_responses[2])
    /\ f_responses[3].status = 503
    /\ Answered(f_responses[4])

\* C5: when run has returned from "all" mode, the text it returned has the
\* section of a database if and only if the query to that database
\* succeeded and returned at least one record.
C5_SectionIff ==
    AllFinished =>
        \A i \in 1..4 :
            Contains(f_ret.text, SectionHeading(db_to_search[i]))
                <=> Answered(f_responses[i])

\* C6: in single-database mode, when the query failed with a transport
\* fault or a non-success status, run has returned (not raised) a text that
\* contains "Error" and, for a non-success status, the status code.
C6_SingleModeError ==
    (SingleFinished /\ (f_responses[1].kind = "transport" \/ f_responses[1].status # 200)) =>
        /\ f_ret.kind = "return"
        /\ Contains(f_ret.text, "Error")
        /\ f_responses[1].kind = "http" =>
               Contains(f_ret.text, ToString(f_responses[1].status))

\* recall answered 503 and run returned the error text with the code
C6_Witness ==
    /\ SingleFinished
    /\ f_database = "recall"
    /\ f_responses[1].kind = "http"
    /\ f_responses[1].status = 503
    /\ f_ret = [kind |-> "return", text |-> "Error searching FDA database: API error: 503"]

\* C7: in "all" mode, when every one of the four queries failed or
\* returned no record, run has returned the message "No results found in
\* any FDA database for the query: '<query>'...", naming the query it was
\* called with.
C7_NoResultsAnywhere ==
    (AllFinished /\ \A i \in 1..Len(f_responses) : ~Answered(f_responses[i])) =>
        /\ f_ret.kind = "return"
        /\ StartsWith(f_ret.text,
                      "No results found in any FDA database for the query: '"
                          \o f_query \o "'.")
        /\ ~Contains(f_ret.text, "Error")
        /\ ~Contains(f_ret.text, "# FDA Medical Device Database Results")

\* two queries failed, two returned no record
C7_Witness ==
    /\ AllFinished
    /\ Len(f_responses) = 4
    /\ QueryFailed(f_responses[1])
    /\ AnsweredEmpty(f_responses[2])
    /\ QueryFailed(f_responses[3])
    /\ AnsweredEmpty(f_responses[4])
    /\ StartsWith(f_ret.text, "No results found in any FDA database")

\* C8: in single-database mode, when the query succeeded, run has returned
\* the formatted section of the database (its heading, every record of the
\* response, the source line) if the response holds at least one record, and
\* otherwise the message "No results found in the FDA <database> database
\* for the query: '<query>'...".
C8_SingleSectionOrNoResults ==
    (SingleFinished /\ (Answered(f_responses[1]) \/ AnsweredEmpty(f_responses[1]))) =>
        /\ f_ret.kind = "return"
        /\ IF Answered(f_responses[1])
           THEN /\ StartsWith(f_ret.text,
                              "## FDA " \o UpperName(f_database) \o " Database Results\n\n")
                /\ EndsWith(f_ret.text,
                            "\n\nSource: FDA " \o UpperName(f_database)
                                \o " Database via api.fda.gov")
                /\ \A i \in 1..Len(Lookup(f_responses[1].body, "results").q) :
                       Contains(f_ret.text,
                                MarkerOf(Lookup(f_responses[1].body, "results").q[i]))
           ELSE f_ret.text = "No results found in the FDA " \o f_database
                                 \o " database for the query: '" \o f_query
                                 \o "'. Please try a different search term."

-----------------------------------------------------------------------------
(* _sanitize_query, applied to queries padded and separated by whitespace *)

SanitizePads == {"", " ", "\t", " \n"}
SanitizeCores ==
    {"", "stent", "heart valve", "heart  valve", "insulin\tpump", "a b c", "510k"}
SanitizeQueries ==
    {l \o c \o r : l \in SanitizePads, c \in SanitizeCores, r \in SanitizePads}
SanitizeDatabases == {"510k", "recall", "event", "pma", "registrationlisting", "all", "udi"}

SanitizeInit ==
    /\ tools = {}
    /\ AgentIdle
    /\ FdaIdle
    /\ ChatIdle
    /\ p_fn = "_sanitize_query"
    /\ p_args \in SanitizeQueries \X SanitizeDatabases
    /\ p_out = Pending

SanitizeCall ==
    /\ p_fn = "_sanitize_query"
    /\ p_out = Pending
    /\ p_out' = Str(_sanitize_query(p_args[1], p_args[2]))
    /\ UNCHANGED <<p_fn, p_args, agentVars, fdaVars, chatVars>>

SanitizeNext == SanitizeCall

SpecSanitize == SanitizeInit /\ [][SanitizeNext]_vars

\* The reference rule, stated on the positions of the query's characters
NonSpaceAt(s) == {i \in 1..Len(s) : ~IsSpace(Char(s, i))}

Trimmed(s) ==
    IF NonSpaceAt(s) = {} THEN ""
    ELSE SubSeq(s,
                CHOOSE i \in NonSpaceAt(s) : \A j \in NonSpaceAt(s) : i <= j,
                CHOOSE i \in NonSpaceAt(s) : \A j \in NonSpaceAt(s) : i >= j)

SingleWord(q) == NonSpaceAt(q) = 1..Len(q)

FieldPrefix(database) ==
    IF database = "510k" THEN "device_name:"
    ELSE IF database = "recall" THEN "product_description:"
    ELSE IF database = "event" THEN "device.brand_name:"
    ELSE ""

ReferenceRule(query, database) ==
    LET q == Trimmed(query)
    IN IF q = "" THEN "device"
       ELSE IF SingleWord(q) THEN q
       ELSE FieldPrefix(database) \o q

\* C9: the result of _sanitize_query(query, database) is the reference
\* rule's: "device" when the trimmed query is empty, the trimmed query when
\* it is one word, and for several words "device_name:", "product_description:"
\* or "device.brand_name:" before it for 510k, recall or event and nothing
\* before it for every other database; a function of the two arguments alone.
C9_SanitizeRule ==
    (p_fn = "_sanitize_query" /\ p_out # Pending) =>
        p_out = Str(ReferenceRule(p_args[1], p_args[2]))

\* a padded two-word query for event, a padded single word for recall, white
\* space alone, and a two-word query for a database that is not known
C9_Witness ==
    \/ p_args = <<" heart valve\t", "event">> /\ p_out = Str("device.brand_name:heart valve")
    \/ p_args = <<"\tstent \n", "recall">> /\ p_out = Str("stent")
    \/ p_args = <<" \n\t", "510k">> /\ p_out = Str("device")
    \/ p_args = <<"a b c", "udi">> /\ p_out = Str("a b c")

-----------------------------------------------------------------------------
(* _format_multi_results, applied to dicts of responses *)

\* The sequences over S of length at most n
RECURSIVE SeqsUpTo(_, _)
SeqsUpTo(S, n) ==
    IF n = 0 THEN {<<>>}
    ELSE LET shorter == SeqsUpTo(S, n - 1)
         IN shorter \cup {Append(q, x) : q \in {r \in shorter : Len(r) = n - 1}, x \in S}

\* The database has no entry in the dict
Absent == [t |-> "absent", s |-> "", q |-> <<>>]

\* One database's response takes every record list up to MaxRecords, and no
\* results key; the other three are absent, empty, or hold three records
FocusBodies(db) ==
    {Absent, BodyWithoutResults}
        \cup {BodyOf(l) : l \in SeqsUpTo({RecordPool(db)[i] : i \in 1..4}, MaxRecords)}

OtherBodies(db) == <<Absent, BodyOf(<<>>), BodyOf(SubSeq(RecordPool(db), 1, 3))>>

\* The dict's entries, in the order in which run inserts them
DictOf(bodies) ==
    SelectSeq([j \in 1..4 |-> <<db_to_search[j], bodies[j]>>], LAMBDA e : e[2] # Absent)

\* The dict in which database f has the response b and the others those
\* chosen by o
FormatInput(f, b, o) ==
    DictOf([j \in 1..4 |->
               IF j = f THEN b
               ELSE OtherBodies(db_to_search[j])[o[IF j < f THEN j ELSE j - 1]]])

FormatInit ==
    /\ tools = {}
    /\ AgentIdle
    /\ FdaIdle
    /\ ChatIdle
    /\ p_fn = "_format_multi_results"
    /\ \E f \in 1..4, o \in [1..3 -> 1..3] :
           \E b \in FocusBodies(db_to_search[f]) : p_args = <<FormatInput(f, b, o)>>
    /\ p_out = Pending

FormatCall ==
    /\ p_fn = "_format_multi_results"
    /\ p_out = Pending
    /\ p_out' = _format_multi_results(p_args[1])
    /\ UNCHANGED <<p_fn, p_args, agentVars, fdaVars, chatVars>>

FormatNext == FormatCall

SpecFormat == FormatInit /\ [][FormatNext]_vars

\* The number of places where k lies in s
Occurrences(s, k) ==
    Cardinality({i \in 1..(Len(s) - Len(k) + 1) : SubSeq(s, i, i + Len(k) - 1) = k})

\* The record list of a response, empty when it has no results key
RecordsOf(body) == IF HasKey(body, "results") THEN Lookup(body, "results").q ELSE <<>>

RECURSIVE SumOf(_)
SumOf(q) == IF q = <<>> THEN 0 ELSE q[1] + SumOf(Tail(q))

\* C10: in the text _format_multi_results returns, each database of the
\* dict has its heading exactly when its record list is not empty; a record
\* of the list is rendered exactly when it is one of the first two; the first
\* is rendered before the second; and the text holds min(2, n) items for a
\* list of n records, summed over the databases.
C10_TopTwo ==
    (p_fn = "_format_multi_results" /\ p_out.t = "str") =>
        LET d == p_args[1]
            text == p_out.s
        IN /\ \A i \in 1..Len(d) :
                  LET recs == RecordsOf(d[i][2])
                  IN /\ Contains(text, SectionHeading(d[i][1])) <=> recs # <<>>
                     /\ \A j \in 1..Len(recs) :
                            Contains(text, MarkerOf(recs[j]))
                                <=> \E k \in 1..Min(2, Len(recs)) : recs[k] = recs[j]
                     /\ (Len(recs) >= 2 /\ recs[1] # recs[2]) =>
                            IndexOf(text, MarkerOf(recs[1])) < IndexOf(text, MarkerOf(recs[2]))
           /\ \A db \in {"recall", "event", "510k", "pma"} :
                  (\A i \in 1..Len(d) : d[i][1] # db) => ~Contains(text, SectionHeading(db))
           /\ Occurrences(text, "- **")
                  = SumOf([i \in 1..Len(d) |-> Min(2, Len(RecordsOf(d[i][2])))])

\* a list of three distinct records was given for event and two of them
\* rendered, next to a database with an empty list
C10_Witness ==
    /\ p_fn = "_format_multi_results"
    /\ p_out.t = "str"
    /\ \E i \in 1..Len(p_args[1]) :
           /\ p_args[1][i] = <<"event", BodyOf(<<Event2, Event3, Event1>>)>>
           /\ Contains(p_out.s, "Injury B")
           /\ Contains(p_out.s, "Valve C")
           /\ ~Contains(p_out.s, "Valve A")
    /\ \E i \in 1..Len(p_args[1]) : p_args[1][i][2] = BodyOf(<<>>)
    /\ Occurrences(p_out.s, "- **") = 2

-----------------------------------------------------------------------------
(* _get_fda_search_params, applied to utterances and evidence lists that
   name devices and databases in several orders and cases *)

ParamsDeviceParts ==
    {"", "a Stent after a Pacemaker", "catheter or insulin pump",
     "BIOFOURMIS Everion patch", "the Catheter"}

ParamsDatabaseParts ==
    {"", "clearance then recall", "PMA approval", "Adverse report",
     "event or 510K", "approval before Clearance", "prevent harm"}

ParamsResults ==
    {<<>>,
     <<"## Internal Documents\nEverion recall notice, revision 2">>,
     <<"**Vector Store Error:** timeout">>,
     <<"## Internal Documents\nstent clearance file, 2023", "## FDA Database Results\nPMA">>}

ParamsInit ==
    /\ tools = {}
    /\ AgentIdle
    /\ FdaIdle
    /\ ChatIdle
    /\ p_fn = "_get_fda_search_params"
    /\ \E d \in ParamsDeviceParts, b \in ParamsDatabaseParts, r \in ParamsResults :
           p_args = <<d \o " " \o b, r>>
    /\ p_out = Pending

\* The tuple (search_query, database) the function returns
ParamsCall ==
    /\ p_fn = "_get_fda_search_params"
    /\ p_out = Pending
    /\ LET params == _get_fda_search_params(p_args[1], p_args[2])
       IN p_out' = List(<<Str(params[1]), Str(params[2])>>)
    /\ UNCHANGED <<p_fn, p_args, agentVars, fdaVars, chatVars>>

ParamsNext == ParamsCall

SpecParams == ParamsInit /\ [][ParamsNext]_vars

\* The lower-cased combined text of the arguments
CombinedLower == Lower(p_args[1] \o " " \o Join(" ", p_args[2]))

\* The first rule, in the order of the list, of which a keyword lies in text
FirstRule(rules, text) ==
    LET hits == {i \in 1..Len(rules) : \E k \in rules[i][1] : Contains(text, k)}
    IN IF hits = {} THEN 0 ELSE CHOOSE i \in hits : \A j \in hits : i <= j

DatabaseRules ==
    << <<{"recall"}, "recall">>,
       <<{"510k", "clearance"}, "510k">>,
       <<{"pma", "approval"}, "pma">>,
       <<{"adverse", "event"}, "event">> >>

\* C12: the database _get_fda_search_params returns is that of the first
\* rule, in the order recall; 510k or clearance; pma or approval; adverse or
\* event, of which a keyword lies in the lower-cased combined text, and "all"
\* when there is none; a text with both "recall" and "clearance" gives recall.
C12_DatabasePriority ==
    (p_fn = "_get_fda_search_params" /\ p_out # Pending) =>
        LET rule == FirstRule(DatabaseRules, CombinedLower)
        IN /\ p_out.q[2] = Str(IF rule = 0 THEN "all" ELSE DatabaseRules[rule][2])
           /\ (Contains(CombinedLower, "recall") /\ Contains(CombinedLower, "clearance"))
                  => p_out.q[2] = Str("recall")

\* "clearance" comes before "recall" in the utterance, and recall is chosen
C12_Witness ==
    /\ p_fn = "_get_fda_search_params"
    /\ p_args = <<"the Catheter clearance then recall", <<>> >>
    /\ p_out = List(<<Str("catheter"), Str("recall")>>)

DeviceRules ==
    << <<{"everion"}, "everion">>,
       <<{"biofourmis"}, "biofourmis">>,
       <<{"insulin pump"}, "insulin pump">>,
       <<{"pacemaker"}, "pacemaker">>,
       <<{"stent"}, "stent">>,
       <<{"catheter"}, "catheter">> >>

\* C13: the query _get_fda_search_params returns is the first keyword of the
\* list everion, biofourmis, insulin pump, pacemaker, stent, catheter that
\* lies in the lower-cased combined text, wherever in the text it lies, and
\* "medical device" when none does.
C13_QueryKeyword ==
    (p_fn = "_get_fda_search_params" /\ p_out # Pending) =>
        LET rule == FirstRule(DeviceRules, CombinedLower)
        IN p_out.q[1] = Str(IF rule = 0 THEN "medical device" ELSE DeviceRules[rule][2])

\* "Stent" comes before "Pacemaker" in the utterance, and pacemaker, earlier
\* in the list, is chosen
C13_Witness ==
    /\ p_fn = "_get_fda_search_params"
    /\ p_args = <<"a Stent after a Pacemaker PMA approval", <<"**Vector Store Error:** timeout">> >>
    /\ p_out = List(<<Str("pacemaker"), Str("pma")>>)

-----------------------------------------------------------------------------
(* Claims on the evidence of a turn *)

\* Step 1 of the turn is over
PastStep1 == turn > 0 /\ pc # "step1"

\* The document-search step left exactly this evidence
DocumentEvidence(blocks) ==
    /\ BlocksOf(1) = blocks
    /\ \A i \in 1..Len(blocks) : tool_results[i] = blocks[i]

\* The length by which an output is judged: the number of its characters
\* that are not whitespace, or its length without the whitespace at its ends
OutputMeasure(v, nonSpaceOnly) ==
    IF nonSpaceOnly THEN Cardinality(NonSpaceAt(v)) ELSE Len(Trimmed(v))

\* What the document-search step leaves when a normal return is kept exactly
\* if its measure is more than 20
DocumentStepKeeps(nonSpaceOnly) ==
    PastStep1 =>
        IF "file_search" \in tools
        THEN /\ calls # <<>>
             /\ calls[1].tool = "file_search"
             /\ LET out == calls[1].out
                IN IF ~out.ok
                   THEN DocumentEvidence(<<"**Vector Store Error:** " \o out.msg>>)
                   ELSE IF OutputMeasure(out.v, nonSpaceOnly) > 20
                   THEN DocumentEvidence(<<"## Internal Documents\n" \o out.v>>)
                   ELSE DocumentEvidence(<<>>)
        ELSE DocumentEvidence(<<>>)

\* C15 as stated: the "Internal Documents" block is appended exactly when
\* the collaborator returned an output with more than 20 characters that are
\* not whitespace; a raised failure leaves the error block instead.
C15_Original ==
    DocumentStepKeeps(TRUE)

\* C15 as amended: the "Internal Documents" block is appended exactly when
\* the collaborator returned an output that, with the whitespace at its two
\* ends removed, is longer than 20 characters (the whitespace inside counts);
\* a raised failure leaves the error block instead.
C15_TrimmedLength ==
    DocumentStepKeeps(FALSE)

\* an output of 24 characters, 8 without the whitespace at its ends, was
\* dropped, and the turn went on
C15_Witness ==
    /\ Finished
    /\ calls # <<>>
    /\ calls[1].tool = "file_search"
    /\ calls[1].out = Returned("  no match              ")
    /\ BlocksOf(1) = <<>>

\* C16: the prompt built at synthesis has the framing "No additional
\* information was found from the search tools" if and only if the evidence
\* list is empty, and otherwise the framing "Information Found:" followed by
\* the blocks; with no source collaborator configured the list is empty.
C16_PromptFraming ==
    prompt # "" =>
        /\ StartsWith(prompt, "User Question: " \o user_input.s \o "\n\n")
        /\ StartsWith(prompt,
                      "User Question: " \o user_input.s
                          \o "\n\nNo additional information was found from the search tools.")
               <=> tool_results = <<>>
        /\ StartsWith(prompt,
                      "User Question: " \o user_input.s \o "\n\nInformation Found:\n")
               <=> tool_results # <<>>
        /\ tool_results # <<>> =>
               StartsWith(prompt,
                          "User Question: " \o user_input.s \o "\n\nInformation Found:\n"
                              \o tool_results[1])
        /\ tools = {} => tool_results = <<>>

\* "hello there" with no source collaborator: no evidence, the "No
\* additional information" framing, and the completion's answer returned
C16_Witness ==
    /\ Finished
    /\ tools = {}
    /\ user_input = Str("hello there")
    /\ tool_results = <<>>
    /\ Contains(prompt, "No additional information was found from the search tools.")
    /\ ret = [kind |-> "return", text |-> "Here is the answer."]

\* C17: _format_multi_results returns a string for every record shape, a
\* record whose field is present with a null value and a nested list whose
\* first element is not a mapping included; it never raises.
C17_NeverRaises ==
    (p_fn = "_format_multi_results" /\ p_out # Pending) => p_out.t = "str"

\* The evidence block that an invocation of a source leaves, if any
BlockOf(c) ==
    IF c.tool = "file_search"
    THEN IF ~c.out.ok THEN <<"**Vector Store Error:** " \o c.out.msg>>
         ELSE IF Len(Trimmed(c.out.v)) > 20 THEN <<"## Internal Documents\n" \o c.out.v>>
         ELSE <<>>
    ELSE IF c.tool = "fda_medical_device"
    THEN IF ~c.out.ok THEN <<"**FDA Search Error:** " \o c.out.msg>>
         ELSE IF c.out.v # "" THEN <<"## FDA Database Results\n" \o c.out.v>>
         ELSE <<>>
    ELSE IF c.tool = "web_search"
    THEN IF ~c.out.ok THEN <<"**Web Search Error:** " \o c.out.msg>>
         ELSE <<"## Web Search Results\n" \o c.out.v>>
    ELSE <<>>

\* The evidence that a sequence of invocations leaves
RECURSIVE EvidenceOf(_)
EvidenceOf(cs) ==
    IF cs = <<>> THEN <<>>
    ELSE EvidenceOf(SubSeq(cs, 1, Len(cs) - 1)) \o BlockOf(cs[Len(cs)])

\* C19: in every call of process, the first included and every later one,
\* the evidence list starts empty and holds exactly the blocks that the
\* invocations of this call left; the prompt is built from the utterance and
\* the list of this call; and whether the regulatory and the web-search
\* collaborators are invoked is decided by this call's utterance and
\* evidence alone.
C19_FreshTurn ==
    /\ tool_results = EvidenceOf(calls)
    /\ pc = "step1" => tool_results = <<>> /\ prompt = ""
    /\ prompt # "" => prompt = BuildPrompt(user_input.s, EvidenceOf(calls))
    /\ PastStep2 =>
           (Called("fda_medical_device")
               <=> /\ "fda_medical_device" \in tools
                   /\ _needs_fda_search(user_input.s,
                                        EvidenceOf(SelectSeq(calls,
                                                             LAMBDA c : c.tool = "file_search"))))
    /\ PastStep3 =>
           (Called("web_search")
               <=> "web_search" \in tools /\ WantsWebSearch(user_input.s))

\* The second call of process on the same Agent, with "hello there": the
\* collaborators ran, no block was gathered, and the prompt has none
C19_Witness ==
    /\ turn = 2
    /\ Finished
    /\ tools = ToolNames
    /\ user_input = Str("hello there")
    /\ Called("file_search")
    /\ tool_results = <<>>
    /\ StartsWith(prompt, "User Question: hello there\n\nNo additional information was found")

-----------------------------------------------------------------------------
(* The tools of the repository: FileSearchTool and WebSearchTool *)

\* What the document backend does in one call of FileSearchTool.run
FileSearchEnvs ==
    {[kind |-> "nokey", text |-> ""],
     [kind |-> "clientfail", text |-> "bad proxies argument"],
     [kind |-> "raise", text |-> "Search timeout"],
     [kind |-> "raise", text |-> "Connection error."],
     [kind |-> "raise", text |-> ""],
     [kind |-> "completed", text |-> "Everion manual: wearable sensor, rev 2"],
     [kind |-> "completed", text |-> "The recall notice covers lot 7 of the pump."],
     [kind |-> "completed", text |-> ""],
     [kind |-> "noassistant", text |-> ""],
     [kind |-> "status", text |-> "failed"]}

\* FileSearchTool.run, lines 275-359
FileSearchTool_run(env) ==
    IF env.kind = "nokey" THEN Returned("OpenAI API key not configured")
    ELSE IF env.kind = "clientfail"
    THEN Returned("Vector search client error: " \o env.text)
    ELSE IF env.kind = "raise" THEN Returned("Vector store error: " \o env.text)
    ELSE IF env.kind = "completed"
    THEN Returned(IF env.text # "" THEN env.text ELSE "No relevant documents found.")
    ELSE IF env.kind = "noassistant" THEN Returned("No response from document search.")
    ELSE Returned("Document search failed: " \o env.text)

\* The results of the web backend, as run formats them (lines 208-216)
WebContent ==
    "**Heart valve news**\nA new valve entered trials.\n*Source: https://example.org/valve*"

\* What the web backend and the completion service do in one call of
\* WebSearchTool.run: whether a print fails outside the inner try, what the
\* search gives, whether the API key is set, and how the completion request
\* of the summary and that of the fallback end
WebSearchEnvs ==
    {[fault |-> "'ascii' codec can't encode character", ddg |-> "results", key |-> TRUE,
      llm |-> Returned("Summary: a valve entered trials."), fallback |-> Returned("")],
     [fault |-> "", ddg |-> "empty", key |-> TRUE,
      llm |-> Returned(""), fallback |-> Returned("")],
     [fault |-> "", ddg |-> "results", key |-> FALSE,
      llm |-> Returned(""), fallback |-> Returned("")],
     [fault |-> "", ddg |-> "results", key |-> TRUE,
      llm |-> Returned("Summary: a valve entered trials."), fallback |-> Returned("")],
     [fault |-> "", ddg |-> "results", key |-> TRUE,
      llm |-> Raised("Connection error."), fallback |-> Raised("Connection error.")],
     [fault |-> "", ddg |-> "raise", key |-> FALSE,
      llm |-> Returned(""), fallback |-> Returned("")],
     [fault |-> "", ddg |-> "raise", key |-> TRUE,
      llm |-> Returned(""), fallback |-> Returned("Heart valves replace a damaged valve.")]}

\* WebSearchTool._fallback_response, lines 244-265
_fallback_response(env) ==
    IF ~env.key THEN Returned("Search temporarily unavailable")
    ELSE IF env.fallback.ok
    THEN Returned("**Knowledge Base Response:**\n" \o env.fallback.v
                  \o "\n\n*Note: Web search temporarily unavailable. This information is based on training data.*")
    ELSE Returned("Information temporarily unavailable: " \o env.fallback.msg)

\* WebSearchTool.run, lines 195-242
WebSearchTool_run(env) ==
    IF env.fault # "" THEN Returned("Web search error: " \o env.fault)
    ELSE IF env.ddg = "raise" THEN _fallback_response(env)
    ELSE IF env.ddg = "empty" THEN Returned("No current web results found.")
    ELSE IF ~env.key THEN Returned("**Current Web Results:**\n" \o WebContent)
    ELSE IF env.llm.ok
    THEN Returned("**Current Web Search Results (August 2025):**\n" \o env.llm.v
                  \o "\n\n---\n**Sources:**\n" \o WebContent)
    ELSE _fallback_response(env)

-----------------------------------------------------------------------------
(* Agent.process with the tools of the repository *)

\* What the regulatory backend answers to a request of a turn
RepoResponses(db) ==
    {TransportFault("Read timed out."),
     HttpResponse(503, None),
     HttpResponse(200, BodyOf(<<>>)),
     HttpResponse(200, BodyOf(<<RecordPool(db)[1]>>)),
     HttpResponse(200, BodyOf(<<RecordPool(db)[4]>>))}

\* Step 1 with FileSearchTool
RepoStep1 ==
    /\ pc = "step1"
    /\ Step1On({FileSearchTool_run(env) : env \in FileSearchEnvs})

\* process calls run and does not wait for it to return
CallRun_FanOut(query, database) ==
    /\ f_query' = query
    /\ f_database' = database
    /\ f_limit' = 5
    /\ f_pc' = IF database = "all" THEN "all" ELSE "single"
    /\ f_i' = 1
    /\ f_results' = <<>>
    /\ f_requests' = <<>>
    /\ f_responses' = <<>>
    /\ f_ret' = NoReturn
    /\ pc' = "step3"

\* agents.py line 56, FDA_tool.py lines 38-57: process calls
\* run(search_query, database), with the default limit 5, and waits for it
CallRun(query, database) ==
    /\ f_query' = query
    /\ f_database' = database
    /\ f_limit' = 5
    /\ f_pc' = IF database = "all" THEN "all" ELSE "single"
    /\ f_i' = 1
    /\ f_results' = <<>>
    /\ f_requests' = <<>>
    /\ f_responses' = <<>>
    /\ f_ret' = NoReturn
    /\ pc' = "fda_wait"

\* Step 2, lines 50-56: the decision, the parameters and the call of run
RepoStep2Begin ==
    /\ pc = "step2"
    /\ IF user_input.t # "str"
       THEN /\ ToOuterExcept(NoneConcatError)
            /\ UNCHANGED <<tool_results, calls, raised, fdaVars>>
       ELSE IF _find_tool_by_name("fda_medical_device")
               /\ _needs_fda_search(user_input.s, tool_results)
       THEN LET params == _get_fda_search_params(user_input.s, tool_results)
            IN /\ CallRun(params[1], params[2])
               /\ UNCHANGED <<tool_results, calls, raised, ret>>
       ELSE /\ pc' = "step3"
            /\ UNCHANGED <<tool_results, calls, raised, ret, fdaVars>>
    /\ UNCHANGED <<tools, user_input, prompt, turn, pureVars, chatVars>>

\* A request of run in "all" mode
RepoAllSearch ==
    /\ f_pc = "all"
    /\ \E resp \in RepoResponses(db_to_search[f_i]) : AllSearchOn(resp)

\* The request of run in single-database mode
RepoSingleSearch ==
    /\ f_pc = "single"
    /\ \E resp \in RepoResponses(f_database), flip \in BOOLEAN : SingleSearchOn(resp, flip)

\* Step 2, lines 56-60: run has ended, its frame is gone, and process goes
\* on with what it returned
RepoStep2End ==
    /\ pc = "fda_wait"
    /\ f_pc = "idle"
    /\ f_ret.kind # "none"
    /\ LET out == IF f_ret.kind = "return" THEN Returned(f_ret.text) ELSE Raised(f_ret.text)
           step == FdaStep(tool_results, out)
       IN /\ calls' = Append(calls, [tool |-> "fda_medical_device",
                                     args |-> <<Str(f_query), Str(f_database)>>,
                                     out |-> out])
          /\ raised' = IF out.ok THEN raised ELSE raised \cup {"fda_medical_device"}
          /\ IF step.exc
             THEN ToOuterExcept(step.msg) /\ UNCHANGED tool_results
             ELSE tool_results' = step.results /\ pc' = "step3" /\ UNCHANGED ret
    /\ f_pc' = "idle"
    /\ f_query' = ""
    /\ f_database' = ""
    /\ f_limit' = 0
    /\ f_i' = 1
    /\ f_results' = <<>>
    /\ f_requests' = <<>>
    /\ f_responses' = <<>>
    /\ f_ret' = NoReturn
    /\ UNCHANGED <<tools, user_input, prompt, turn, pureVars, chatVars>>

\* Step 3 with WebSearchTool
RepoStep3 ==
    /\ pc = "step3"
    /\ Step3On({WebSearchTool_run(env) : env \in WebSearchEnvs})

RepoInit ==
    /\ tools \in SUBSET ToolNames
    /\ AgentIdle
    /\ FdaIdle
    /\ ChatIdle
    /\ PureIdle

RepoNext ==
    \/ ProcessStart
    \/ RepoStep1
    \/ RepoStep2Begin
    \/ RepoAllSearch
    \/ RepoSingleSearch
    \/ RepoStep2End
    \/ RepoStep3
    \/ Step4

SpecRepo == RepoInit /\ [][RepoNext]_vars

-----------------------------------------------------------------------------
(* Claims on the turn with the tools of the repository *)

\* The place of a collaborator in the order of a turn
Rank(tool) ==
    IF tool = "file_search" THEN 1
    ELSE IF tool = "fda_medical_device" THEN 2
    ELSE IF tool = "web_search" THEN 3
    ELSE 4

\* The collaborators are invoked one after another, in the order of the steps
InvocationsInOrder ==
    /\ f_pc # "idle" => pc = "fda_wait"
    /\ f_requests # <<>> =>
           /\ pc = "fda_wait"
           /\ "file_search" \in tools => Called("file_search")
           /\ \A i \in 1..Len(calls) : calls[i].tool = "file_search"
    /\ \A i, j \in 1..Len(calls) : i < j => Rank(calls[i].tool) < Rank(calls[j].tool)
    /\ Called("web_search") => pc \in {"step4", "idle"} /\ f_pc = "idle" /\ f_requests = <<>>
    /\ Called("completion") => pc = "idle" /\ calls[Len(calls)].tool = "completion"

\* The turn reached the completion request: the prompt was built, the API key
\* was set and the client was created
CompletionRequested ==
    /\ prompt # ""
    /\ ret.text # "OpenAI API key not configured"
    /\ ~StartsWith(ret.text, "Failed to create OpenAI client: ")

FailureTexts(tool) ==
    IF tool = "file_search"
    THEN {"Vector store error: ", "Vector search client error: ", "Document search failed: "}
    ELSE IF tool = "fda_medical_device" THEN {"Error searching FDA database: "}
    ELSE IF tool = "web_search"
    THEN {"Web search error: ", "Information temporarily unavailable: "}
    ELSE {}

\* No block of the evidence list is labelled as an error
NoErrorBlock == \A i \in 1..Len(tool_results) : ~IsErrorBlock(tool_results[i])

\* The heading under which a source's output is appended
HeadingOf(tool) ==
    IF tool = "file_search" THEN "## Internal Documents\n"
    ELSE IF tool = "fda_medical_device" THEN "## FDA Database Results\n"
    ELSE "## Web Search Results\n"

\* C20: with the tools of the repository no run method raises, no evidence
\* block is labelled as an error, and the text with which a run method
\* reports a failure is in the evidence list under the heading of its source.
C20_FailureUnderHeading ==
    /\ raised \subseteq {"completion"}
    /\ NoErrorBlock
    /\ \A i \in 1..Len(calls) :
           LET c == calls[i]
           IN (\E t \in FailureTexts(c.tool) : StartsWith(c.out.v, t)) =>
                  \E j \in 1..Len(tool_results) :
                      tool_results[j] = HeadingOf(c.tool) \o c.out.v

-----------------------------------------------------------------------------
(* The chat of app2.py: each question is a call of get_research_response *)

\* What the user types into st.chat_input (never the empty text: line 192)
Questions ==
    {"hello there",
     "FDA recall of insulin pumps"}

\* get_research_response, line 87: history[-3:]
recent_messages(history) == SubSeq(history, Max(1, Len(history) - 2), Len(history))

\* get_research_response handing the question alone to the agent
full_prompt_QuestionOnly(question, history) == question

\* get_research_response, lines 84-92: the text handed to Runner.run
full_prompt(question, history) ==
    LET recent == recent_messages(history)
        context == IF history # <<>>
                   THEN Join("\n", [i \in 1..Len(recent) |->
                                       recent[i].role \o ": " \o recent[i].content])
                   ELSE ""
    IN IF context # ""
       THEN "Recent conversation:\n" \o context \o "\n\nCurrent question: " \o question
       ELSE question

ChatInit ==
    /\ tools = {}
    /\ AgentIdle
    /\ FdaIdle
    /\ ChatIdle
    /\ PureIdle

\* app2.py lines 192-204 and 78-95: a question is typed with at least one
\* source selected; it is appended to the messages, the agent is created with
\* the sources selected, and process is called with the full prompt
ChatSubmit ==
    /\ pc = "idle"
    /\ ret = NoReturn
    /\ turn < MaxTurns
    /\ \E question \in Questions, selected \in (SUBSET ToolNames) \ {{}} :
         /\ messages' = Append(messages, [role |-> "user", content |-> question])
         /\ tools' = selected
         /\ user_input' = Str(full_prompt(question, messages'))
    /\ tool_results' = <<>>
    /\ pc' = "step1"
    /\ prompt' = ""
    /\ calls' = <<>>
    /\ raised' = {}
    /\ turn' = turn + 1
    /\ UNCHANGED <<ret, fdaVars, pureVars>>

\* app2.py lines 96-107 and 204-208: get_research_response returns, the
\* agent it created is gone, and what it returned is appended to the messages
ChatFinish ==
    /\ pc = "idle"
    /\ ret # NoReturn
    /\ LET response ==
               IF ret.kind = "return" THEN ret.text
               ELSE "I encountered an error processing your request. Please try rephrasing your question or check the error details above."
       IN messages' = Append(messages, [role |-> "assistant", content |-> response])
    /\ tools' = {}
    /\ user_input' = None
    /\ tool_results' = <<>>
    /\ ret' = NoReturn
    /\ prompt' = ""
    /\ calls' = <<>>
    /\ raised' = {}
    /\ UNCHANGED <<pc, turn, fdaVars, pureVars>>

\* How the document search ends in a turn of the chat
ChatDocOutcomes ==
    {Returned(""),
     Returned("Everion manual: wearable sensor, rev 2"),
     Raised("Search timeout")}

\* Step 1 of the agent of the chat
ChatStep1 ==
    /\ pc = "step1"
    /\ Step1On(ChatDocOutcomes)

ChatNext == ChatSubmit \/ ChatStep1 \/ Step2 \/ Step3 \/ Step4 \/ ChatFinish

SpecChat == ChatInit /\ [][ChatNext]_vars

\* process was called for a question and its answer is not yet in the messages
InChatTurn == pc # "idle" \/ ret # NoReturn

\* The question of the turn: the last message of the user
CurrentQuestion ==
    LET own == SelectSeq(messages, LAMBDA m : m.role = "user")
    IN own[Len(own)].content

\* C21: in every turn of the chat the messages are not empty when process is
\* called and the utterance is a text that begins with "Recent conversation:";
\* as process is entered the utterance ends with "Current question: " and
\* the question, and the recency test of step 3 holds for it; once step 3 is
\* over the web-search collaborator
\* was invoked if and only if it is configured, whatever the question.
C21_AlwaysWebSearch ==
    /\ InChatTurn =>
           /\ messages # <<>>
           /\ user_input.t = "str"
           /\ StartsWith(user_input.s, "Recent conversation:\n")
    /\ pc = "step1" =>
           /\ EndsWith(user_input.s, "\n\nCurrent question: " \o CurrentQuestion)
           /\ WantsWebSearch(user_input.s)
    /\ PastStep3 => (Called("web_search") <=> "web_search" \in tools)

\* The first question of a chat, "hello there", which holds none of the
\* recency terms: web search was invoked with the full prompt
C21_Witness ==
    /\ Finished
    /\ ret # NoReturn
    /\ turn = 1
    /\ CurrentQuestion = "hello there"
    /\ ~WantsWebSearch(CurrentQuestion)
    /\ user_input = Str("Recent conversation:\nuser: hello there\n\nCurrent question: hello there")
    /\ Called("web_search")
    /\ CallOf("web_search").args = <<user_input>>

-----------------------------------------------------------------------------
(* Claims on the limit of a backend request *)

\* C22: every request of "all" mode carries the limit max(2, floor(limit / 2))
\* of the caller's limit, which is 2 for the limit 5, is never below 2 and
\* for the limit 1 is above the caller's limit; the request of
\* single-database mode carries the caller's limit.
C22_LimitSent ==
    \A i \in 1..Len(f_requests) :
        LET sent == f_requests[i].limit
            half == f_limit \div 2
        IN IF f_database = "all"
           THEN /\ sent = IF half >= 2 THEN half ELSE 2
                /\ sent >= 2
                /\ f_limit = 5 => sent = 2
                /\ f_limit = 1 => sent > f_limit
                /\ 2 * sent <= f_limit \/ sent = 2
           ELSE sent = f_limit

\* run(query, "all", 1) has sent its four requests, each with the limit 2
C22_Witness ==
    /\ AllFinished
    /\ f_limit = 1
    /\ Len(f_requests) = 4
    /\ \A i \in 1..4 : f_requests[i].limit = 2


=============================================================================
